---- MODULE Spec2Model ----
(***************************************************************************)
(* Model of the query engine of the todo-list repository: the Value/Type   *)
(* coercion rules (value/conversion.rs, value/operations.rs), the          *)
(* expression evaluator (expression.rs), the ResultSet table               *)
(* (result_set.rs) and Query::execute with its filter and projection       *)
(* (query.rs), run against TestReflect records (reflect.rs).               *)
(*                                                                         *)
(* A Rust String is a tuple of one-character strings, so that parsing and  *)
(* formatting are computed character by character.                         *)
(***************************************************************************)
EXTENDS Integers, Sequences, FiniteSets, TLC

VARIABLES
    left, right, unified,          \* Value::unify_types: operands and result
    applied_op, applied,           \* an operation or a cast on them, and its result
    result_set, last_call,         \* a ResultSet under a sequence of calls
    query, items, pc,              \* Query::execute: inputs and position
    columns_out, filtered, outcome, \* its intermediate and final results
    input, parsed,                 \* Query::from_str: the text and the result
    repl                           \* Cli::run in REPL mode: position and last events

vars == <<left, right, unified, applied_op, applied, result_set, last_call,
          query, items, pc, columns_out, filtered, outcome, input, parsed, repl>>

(***************************************************************************)
(* Bounds of the model.                                                    *)
(***************************************************************************)
MaxItems == 2
MaxFields == 2
MaxRows == 2
MaxPairs == 2
MaxReads == 3

(***************************************************************************)
(* Result<T, E>                                                            *)
(***************************************************************************)
Ok(v) == [ok |-> TRUE, v |-> v]
Err(e) == [ok |-> FALSE, err |-> e]

\* The `?` operator: the rest of the computation on the payload of an Ok,
\* or the Err itself.
AndThen(result, F(_)) == IF result.ok THEN F(result.v) ELSE result
\* Result::map
MapOk(result, Wrap(_)) == IF result.ok THEN Ok(Wrap(result.v)) ELSE result
\* Result::map_err with a constant error
MapErr(result, e) == IF result.ok THEN result ELSE Err(e)
\* Result::or_else
OrElse(result, other) == IF result.ok THEN result ELSE other

(***************************************************************************)
(* Characters and strings.                                                 *)
(***************************************************************************)
DigitChars == <<"0", "1", "2", "3", "4", "5", "6", "7", "8", "9">>
LowerChars == <<"a", "b", "c", "d", "e", "f", "g", "h", "i", "j", "k", "l", "m",
                "n", "o", "p", "q", "r", "s", "t", "u", "v", "w", "x", "y", "z">>
UpperChars == <<"A", "B", "C", "D", "E", "F", "G", "H", "I", "J", "K", "L", "M",
                "N", "O", "P", "Q", "R", "S", "T", "U", "V", "W", "X", "Y", "Z">>

IndexOf(seq, c) == CHOOSE i \in 1..Len(seq) : seq[i] = c
InSeq(seq, c) == \E i \in 1..Len(seq) : seq[i] = c
IsDigit(c) == InSeq(DigitChars, c)
DigitVal(c) == IndexOf(DigitChars, c) - 1
DigitChar(d) == DigitChars[d + 1]

\* The byte value of a character (strings are ordered by their bytes).
ByteOf(c) ==
    IF IsDigit(c) THEN 47 + IndexOf(DigitChars, c)
    ELSE IF InSeq(UpperChars, c) THEN 64 + IndexOf(UpperChars, c)
    ELSE IF InSeq(LowerChars, c) THEN 96 + IndexOf(LowerChars, c)
    ELSE CASE c = " " -> 32
           [] c = "+" -> 43
           [] c = "-" -> 45
           [] c = "." -> 46
           [] c = ":" -> 58
           [] c = "_" -> 95

Pow10(n) == IF n = 0 THEN 1 ELSE IF n = 1 THEN 10 ELSE IF n = 2 THEN 100
            ELSE IF n = 3 THEN 1000 ELSE 10000

AllDigits(s) == Len(s) > 0 /\ \A i \in 1..Len(s) : IsDigit(s[i])

RECURSIVE DigitsValue(_)
DigitsValue(s) ==
    IF Len(s) = 0 THEN 0
    ELSE 10 * DigitsValue(SubSeq(s, 1, Len(s) - 1)) + DigitVal(s[Len(s)])

RECURSIVE NatDigits(_)
NatDigits(n) ==
    IF n < 10 THEN <<DigitChar(n)>>
    ELSE Append(NatDigits(n \div 10), DigitChar(n % 10))

\* n printed with at least w digits, zero padded.
RECURSIVE PadDigits(_, _)
PadDigits(n, w) ==
    LET d == NatDigits(n)
    IN  IF Len(d) >= w THEN d ELSE <<"0">> \o PadDigits(n, w - 1)

IntDigits(i) == IF i < 0 THEN <<"-">> \o NatDigits(-i) ELSE NatDigits(i)

\* str::contains: the pattern occurs as a contiguous substring.
Contains(s, p) ==
    \E i \in 1..(Len(s) - Len(p) + 1) : SubSeq(s, i, i + Len(p) - 1) = p

\* Ord for str: lexicographic on bytes.
RECURSIVE StrCmp(_, _)
StrCmp(a, b) ==
    IF Len(a) = 0 /\ Len(b) = 0 THEN "Equal"
    ELSE IF Len(a) = 0 THEN "Less"
    ELSE IF Len(b) = 0 THEN "Greater"
    ELSE IF ByteOf(Head(a)) < ByteOf(Head(b)) THEN "Less"
    ELSE IF ByteOf(Head(a)) > ByteOf(Head(b)) THEN "Greater"
    ELSE StrCmp(Tail(a), Tail(b))

IntCmp(a, b) == IF a < b THEN "Less" ELSE IF a > b THEN "Greater" ELSE "Equal"

(***************************************************************************)
(* Number (value.rs): Int(i64) or Float(f64).  A Float is held as the      *)
(* decimal m / 10^e with no trailing zero in m when e > 0: the code only   *)
(* parses, compares, truncates and prints floats, and on short decimal     *)
(* literals these agree with the decimal they denote.                      *)
(***************************************************************************)
Number_Int(i) == [k |-> "Int", i |-> i]

RECURSIVE Number_Float(_, _)
Number_Float(m, e) ==
    IF e > 0 /\ m % 10 = 0 THEN Number_Float(m \div 10, e - 1)
    ELSE [k |-> "Float", m |-> m, e |-> e]

Abs(i) == IF i < 0 THEN -i ELSE i

\* `f64 as i64` truncates toward zero.
as_i64(n) ==
    IF n.k = "Int" THEN n.i
    ELSE IF n.m < 0 THEN -(Abs(n.m) \div Pow10(n.e)) ELSE n.m \div Pow10(n.e)

as_f64(n) == IF n.k = "Int" THEN Number_Float(n.i, 0) ELSE n

FloatCmp(a, b) == IntCmp(a.m * Pow10(b.e), b.m * Pow10(a.e))

NumberPartialCmp(a, b) ==
    IF a.k = "Float" /\ b.k = "Int" THEN FloatCmp(a, as_f64(b))
    ELSE IF a.k = "Int" /\ b.k = "Float" THEN FloatCmp(as_f64(a), b)
    ELSE IF a.k = "Int" /\ b.k = "Int" THEN IntCmp(a.i, b.i)
    ELSE FloatCmp(a, b)

NumberEq(a, b) ==
    IF a.k = "Int" /\ b.k = "Int" THEN a.i = b.i
    ELSE FloatCmp(as_f64(a), as_f64(b)) = "Equal"

\* str::parse::<i64>: an optional sign, then one or more digits.
ParseI64(s) ==
    LET signed == Len(s) > 0 /\ Head(s) \in {"+", "-"}
        digits == IF signed THEN Tail(s) ELSE s
    IN  IF ~AllDigits(digits) THEN Err("ParseIntError")
        ELSE IF signed /\ Head(s) = "-" THEN Ok(-DigitsValue(digits))
        ELSE Ok(DigitsValue(digits))

\* str::parse::<f64> on decimal literals: an optional sign, digits with at
\* most one point, at least one digit.
ParseF64(s) ==
    LET signed == Len(s) > 0 /\ Head(s) \in {"+", "-"}
        body == IF signed THEN Tail(s) ELSE s
        points == {i \in 1..Len(body) : body[i] = "."}
        point == IF points = {} THEN Len(body) + 1 ELSE CHOOSE i \in points : TRUE
        whole == SubSeq(body, 1, point - 1)
        frac == SubSeq(body, point + 1, Len(body))
        wellFormed == /\ Cardinality(points) <= 1
                      /\ Len(whole) + Len(frac) > 0
                      /\ \A i \in 1..Len(whole) : IsDigit(whole[i])
                      /\ \A i \in 1..Len(frac) : IsDigit(frac[i])
        magnitude == DigitsValue(whole) * Pow10(Len(frac)) + DigitsValue(frac)
    IN  IF ~wellFormed THEN Err("ParseFloatError")
        ELSE IF signed /\ Head(s) = "-" THEN Ok(Number_Float(-magnitude, Len(frac)))
        ELSE Ok(Number_Float(magnitude, Len(frac)))

\* impl FromStr for Number: integer first, then float.
NumberFromStr(s) == OrElse(MapOk(ParseI64(s), Number_Int), ParseF64(s))

\* impl Display for Number.
NumberToString(n) ==
    IF n.k = "Int" THEN IntDigits(n.i)
    ELSE IF n.e = 0 THEN IntDigits(n.m)
    ELSE (IF n.m < 0 THEN <<"-">> ELSE <<>>)
         \o NatDigits(Abs(n.m) \div Pow10(n.e))
         \o <<".">>
         \o PadDigits(Abs(n.m) % Pow10(n.e), n.e)

\* str::parse::<bool>: exactly `true` or `false`.
ParseBool(s) ==
    IF s = <<"t", "r", "u", "e">> THEN Ok(TRUE)
    ELSE IF s = <<"f", "a", "l", "s", "e">> THEN Ok(FALSE)
    ELSE Err("ParseBoolError")

BoolToString(b) ==
    IF b THEN <<"t", "r", "u", "e">> ELSE <<"f", "a", "l", "s", "e">>

(***************************************************************************)
(* DateTime<Utc>: the seconds since the Unix epoch.  Strings are read and  *)
(* written in the format %Y-%m-%d %H:%M, in its zero padded form.          *)
(***************************************************************************)
IsLeap(y) == (y % 4 = 0 /\ y % 100 # 0) \/ y % 400 = 0

DaysInMonth(y, m) ==
    IF m = 2 THEN (IF IsLeap(y) THEN 29 ELSE 28)
    ELSE IF m \in {4, 6, 9, 11} THEN 30 ELSE 31

DaysFromCivil(y, m, d) ==
    LET yy == IF m <= 2 THEN y - 1 ELSE y
        era == yy \div 400
        yoe == yy - era * 400
        mp == IF m > 2 THEN m - 3 ELSE m + 9
        doy == (153 * mp + 2) \div 5 + d - 1
        doe == yoe * 365 + yoe \div 4 - yoe \div 100 + doy
    IN  era * 146097 + doe - 719468

CivilFromDays(z0) ==
    LET z == z0 + 719468
        era == z \div 146097
        doe == z - era * 146097
        yoe == (doe - doe \div 1460 + doe \div 36524 - doe \div 146096) \div 365
        doy == doe - (365 * yoe + yoe \div 4 - yoe \div 100)
        mp == (5 * doy + 2) \div 153
        d == doy - (153 * mp + 2) \div 5 + 1
        m == IF mp < 10 THEN mp + 3 ELSE mp - 9
        y == yoe + era * 400 + (IF m <= 2 THEN 1 ELSE 0)
    IN  [y |-> y, m |-> m, d |-> d]

\* NaiveDateTime::parse_from_str(s, "%Y-%m-%d %H:%M").and_utc()
ParseDateTime(s) ==
    LET shaped == /\ Len(s) = 16
                  /\ s[5] = "-" /\ s[8] = "-" /\ s[11] = " " /\ s[14] = ":"
                  /\ \A i \in {1, 2, 3, 4, 6, 7, 9, 10, 12, 13, 15, 16} : IsDigit(s[i])
        y == DigitsValue(SubSeq(s, 1, 4))
        m == DigitsValue(SubSeq(s, 6, 7))
        d == DigitsValue(SubSeq(s, 9, 10))
        h == DigitsValue(SubSeq(s, 12, 13))
        mi == DigitsValue(SubSeq(s, 15, 16))
    IN  IF ~shaped THEN Err("ParseError")
        ELSE IF ~(m \in 1..12 /\ d \in 1..DaysInMonth(y, m) /\ h \in 0..23 /\ mi \in 0..59)
        THEN Err("ParseError")
        ELSE Ok(DaysFromCivil(y, m, d) * 86400 + h * 3600 + mi * 60)

\* datetime.format("%Y-%m-%d %H:%M").to_string(): the seconds are dropped.
FormatDateTime(ts) ==
    LET date == CivilFromDays(ts \div 86400)
        secs == ts % 86400
    IN  PadDigits(date.y, 4) \o <<"-">> \o PadDigits(date.m, 2) \o <<"-">>
        \o PadDigits(date.d, 2) \o <<" ">> \o PadDigits(secs \div 3600, 2)
        \o <<":">> \o PadDigits((secs % 3600) \div 60, 2)

(***************************************************************************)
(* Value and Type (value.rs, value/conversion.rs).                         *)
(***************************************************************************)
Null == [t |-> "Null"]
Bool(b) == [t |-> "Bool", b |-> b]
Number(n) == [t |-> "Number", n |-> n]
String(s) == [t |-> "String", s |-> s]
DateTime(d) == [t |-> "DateTime", d |-> d]

Types == {"DateTime", "Number", "Bool", "String", "Null"}

type(value) == value.t

\* precedence with the numbers of Number and Bool exchanged.
precedence_bool_first(ty) ==
    CASE ty = "DateTime" -> 0
      [] ty = "Bool" -> 1
      [] ty = "Number" -> 3
      [] ty = "String" -> 4
      [] ty = "Null" -> 5

precedence(ty) ==
    CASE ty = "DateTime" -> 0
      [] ty = "Number" -> 1
      [] ty = "Bool" -> 3
      [] ty = "String" -> 4
      [] ty = "Null" -> 5

NotAllowed(from, to) ==
    [e |-> "Conversion", kind |-> "NotAllowed", from |-> from, to |-> to]
Failed(value, dest_type) ==
    [e |-> "Conversion", kind |-> "Failed", value |-> value, dest_type |-> dest_type]

\* cast_to_datetime that takes a Bool for the timestamp 0 or 1.
cast_to_datetime_from_bool(value) ==
    CASE value.t = "DateTime" -> Ok(value.d)
      [] value.t = "Number" -> Ok(as_i64(value.n))
      [] value.t = "Bool" -> Ok(IF value.b THEN 1 ELSE 0)
      [] value.t = "String" -> MapErr(ParseDateTime(value.s), Failed(value, "DateTime"))
      [] OTHER -> Err(NotAllowed(type(value), "DateTime"))

cast_to_datetime(value) ==
    CASE value.t = "DateTime" -> Ok(value.d)
      [] value.t = "Number" -> Ok(as_i64(value.n))
      [] value.t = "String" -> MapErr(ParseDateTime(value.s), Failed(value, "DateTime"))
      [] OTHER -> Err(NotAllowed(type(value), "DateTime"))

cast_to_number(value) ==
    CASE value.t = "Number" -> Ok(value.n)
      [] value.t = "Bool" -> Ok(Number_Int(IF value.b THEN 1 ELSE 0))
      [] value.t = "DateTime" -> Ok(Number_Int(value.d))
      [] value.t = "String" -> MapErr(NumberFromStr(value.s), Failed(value, "Number"))
      [] OTHER -> Err(NotAllowed(type(value), "Number"))

cast_to_string(value) ==
    CASE value.t = "String" -> Ok(value.s)
      [] value.t = "Bool" -> Ok(BoolToString(value.b))
      [] value.t = "Number" -> Ok(NumberToString(value.n))
      [] value.t = "DateTime" -> Ok(FormatDateTime(value.d))
      [] OTHER -> Err(NotAllowed(type(value), "String"))

\* cast_to_bool that tests the f64 value of a Number against 0.
cast_to_bool_float_nonzero(value) ==
    CASE value.t = "Bool" -> Ok(value.b)
      [] value.t = "Number" -> Ok(IF value.n.k = "Int" THEN value.n.i # 0 ELSE value.n.m # 0)
      [] value.t = "String" -> MapErr(ParseBool(value.s), Failed(value, "Bool"))
      [] OTHER -> Err(NotAllowed(type(value), "Bool"))

\* cast_to_bool that takes Null for false.
cast_to_bool_null_false(value) ==
    CASE value.t = "Bool" -> Ok(value.b)
      [] value.t = "Number" -> Ok(as_i64(value.n) # 0)
      [] value.t = "String" -> MapErr(ParseBool(value.s), Failed(value, "Bool"))
      [] OTHER -> Ok(FALSE)

cast_to_bool(value) ==
    CASE value.t = "Bool" -> Ok(value.b)
      [] value.t = "Number" -> Ok(as_i64(value.n) # 0)
      [] value.t = "String" -> MapErr(ParseBool(value.s), Failed(value, "Bool"))
      [] OTHER -> Err(NotAllowed(type(value), "Bool"))

cast_to(value, ty) ==
    CASE ty = "DateTime" -> MapOk(cast_to_datetime(value), DateTime)
      [] ty = "Number" -> MapOk(cast_to_number(value), Number)
      [] ty = "Bool" -> MapOk(cast_to_bool(value), Bool)
      [] ty = "String" -> MapOk(cast_to_string(value), String)
      [] ty = "Null" -> Err(NotAllowed(type(value), "Null"))

\* unify_types with the arms of Less and Greater exchanged.
unify_types_arms_swapped(l, r) ==
    LET left_type == type(l)
        right_type == type(r)
    IN  IF precedence(left_type) = precedence(right_type) THEN Ok(<<l, r>>)
        ELSE IF precedence(left_type) < precedence(right_type)
        THEN MapOk(cast_to(l, right_type), LAMBDA cast : <<cast, r>>)
        ELSE MapOk(cast_to(r, left_type), LAMBDA cast : <<l, cast>>)

unify_types(l, r) ==
    LET left_type == type(l)
        right_type == type(r)
    IN  IF precedence(left_type) = precedence(right_type) THEN Ok(<<l, r>>)
        ELSE IF precedence(left_type) < precedence(right_type)
        THEN MapOk(cast_to(r, left_type), LAMBDA cast : <<l, cast>>)
        ELSE MapOk(cast_to(l, right_type), LAMBDA cast : <<cast, r>>)

(***************************************************************************)
(* Comparison and logic on Values (value.rs, value/operations.rs).         *)
(***************************************************************************)
\* The derived order of the variants of Value.
VariantIndex(value) ==
    CASE value.t = "Null" -> 0
      [] value.t = "Bool" -> 1
      [] value.t = "Number" -> 2
      [] value.t = "String" -> 3
      [] value.t = "DateTime" -> 4

\* #[derive(PartialEq)] for Value, with Number's own PartialEq.
ValueEq(a, b) ==
    /\ a.t = b.t
    /\ CASE a.t = "Null" -> TRUE
         [] a.t = "Bool" -> a.b = b.b
         [] a.t = "Number" -> NumberEq(a.n, b.n)
         [] a.t = "String" -> a.s = b.s
         [] a.t = "DateTime" -> a.d = b.d

\* #[derive(PartialOrd)] for Value: the variant first, then the payload.
ValuePartialCmp(a, b) ==
    IF a.t # b.t THEN IntCmp(VariantIndex(a), VariantIndex(b))
    ELSE CASE a.t = "Null" -> "Equal"
           [] a.t = "Bool" -> IntCmp(IF a.b THEN 1 ELSE 0, IF b.b THEN 1 ELSE 0)
           [] a.t = "Number" -> NumberPartialCmp(a.n, b.n)
           [] a.t = "String" -> StrCmp(a.s, b.s)
           [] a.t = "DateTime" -> IntCmp(a.d, b.d)

Unsupported(l, r, op) ==
    [e |-> "BinaryOperation", kind |-> "Unsupported",
     left |-> type(l), right |-> type(r), operator |-> op]

\* unsupported_null that looks at the left operand alone.
unsupported_null_left_only(l, r, op) ==
    IF l.t = "Null" THEN Err(Unsupported(l, r, op)) ELSE Ok(<<>>)

unsupported_null(l, r, op) ==
    IF l.t = "Null" \/ r.t = "Null" THEN Err(Unsupported(l, r, op)) ELSE Ok(<<>>)

\* eq that unifies the operands before it looks for Null.
Value_eq_unifies_first(l, r) ==
    MapOk(unify_types(l, r), LAMBDA u : Bool(ValueEq(u[1], u[2])))

Value_eq(l, r) ==
    IF l.t = "Null" THEN Ok(Bool(type(r) = "Null"))
    ELSE IF r.t = "Null" THEN Ok(Bool(type(l) = "Null"))
    ELSE MapOk(unify_types(l, r), LAMBDA u : Bool(ValueEq(u[1], u[2])))

\* lte, lt, gte and gt differ in the comparison alone.
Ordered(l, r, op, accepted) ==
    AndThen(unsupported_null(l, r, op),
            LAMBDA unit : MapOk(unify_types(l, r),
                                LAMBDA u : Bool(ValuePartialCmp(u[1], u[2]) \in accepted)))

Value_lte(l, r) == Ordered(l, r, "Lte", {"Less", "Equal"})
Value_lt(l, r) == Ordered(l, r, "Lt", {"Less"})
Value_gte(l, r) == Ordered(l, r, "Gte", {"Greater", "Equal"})
Value_gt(l, r) == Ordered(l, r, "Gt", {"Greater"})

\* and that accepts a Bool on the left alone.
Value_and_left_bool_only(l, r) ==
    IF l.t = "Bool"
    THEN IF ~l.b THEN Ok(Bool(FALSE)) ELSE MapOk(cast_to_bool(r), Bool)
    ELSE Err(Unsupported(l, r, "And"))

\* The or-pattern (Bool(left), right) | (right, Bool(left)) binds the left
\* operand when it is a Bool, else the right one.  `&&` and `||` evaluate
\* their right side, the cast with its `?`, only when the Bool operand does
\* not already decide the result.
Value_and(l, r) ==
    IF l.t = "Bool" \/ r.t = "Bool"
    THEN LET b == IF l.t = "Bool" THEN l.b ELSE r.b
             other == IF l.t = "Bool" THEN r ELSE l
         IN  IF ~b THEN Ok(Bool(FALSE))
             ELSE MapOk(cast_to_bool(other), Bool)
    ELSE Err(Unsupported(l, r, "And"))

Value_or(l, r) ==
    IF l.t = "Bool" \/ r.t = "Bool"
    THEN LET b == IF l.t = "Bool" THEN l.b ELSE r.b
             other == IF l.t = "Bool" THEN r ELSE l
         IN  IF b THEN Ok(Bool(TRUE))
             ELSE MapOk(cast_to_bool(other), Bool)
    ELSE Err(Unsupported(l, r, "Or"))

\* like that casts the pattern to a string as it does the left operand.
Value_like_casts_pattern(l, pattern) ==
    AndThen(cast_to_string(pattern),
            LAMBDA p : MapOk(cast_to_string(l), LAMBDA string : Bool(Contains(string, p))))

Value_like(l, pattern) ==
    IF pattern.t = "String"
    THEN MapOk(cast_to_string(l), LAMBDA string : Bool(Contains(string, pattern.s)))
    ELSE Err(Unsupported(l, pattern, "Like"))

Value_not(value) == MapOk(cast_to_bool(value), LAMBDA b : Bool(~b))

(***************************************************************************)
(* Reflectable for TestReflect (reflect.rs): a record                      *)
(* [string, number, date_time].  fields() pairs the name `string` with the *)
(* number and the name `number` with the string, as the source does.       *)
(***************************************************************************)
NoField(field) == [e |-> "Reflect", kind |-> "NoField", field |-> field]

get_field(item, field) ==
    CASE field = "string" -> Ok(String(item.string))
      [] field = "number" -> Ok(Number(Number_Int(item.number)))
      [] field = "date_time" -> Ok(DateTime(item.date_time))
      [] OTHER -> Err(NoField(field))

fields(item) ==
    << [name |-> "string", value |-> Number(Number_Int(item.number))],
       [name |-> "number", value |-> String(item.string)],
       [name |-> "date_time", value |-> DateTime(item.date_time)] >>

field_names == <<"string", "number", "date_time">>

(***************************************************************************)
(* Expressions and their evaluation (ast/expression.rs, expression.rs).    *)
(***************************************************************************)
Identifier(name) == [x |-> "Identifier", name |-> name]
Literal(lit) == [x |-> "Literal", lit |-> lit]
Unary(op, expression) == [x |-> "Unary", op |-> op, expression |-> expression]
Binary(left_expression, op, right_expression) ==
    [x |-> "Binary", left_expression |-> left_expression, op |-> op,
     right_expression |-> right_expression]

\* impl From<&Literal> for Value
Literal_value(lit) ==
    CASE lit.t = "Null" -> Null
      [] lit.t = "Bool" -> Bool(lit.b)
      [] lit.t = "Number" -> Number(lit.n)
      [] lit.t = "String" -> String(lit.s)

Identifier_read(identifier, context) == get_field(context, identifier.name)

BinaryOp_apply(op, l, r) ==
    CASE op = "Gt" -> Value_gt(l, r)
      [] op = "Lt" -> Value_lt(l, r)
      [] op = "Gte" -> Value_gte(l, r)
      [] op = "Lte" -> Value_lte(l, r)
      [] op = "Eq" -> Value_eq(l, r)
      [] op = "Like" -> Value_like(l, r)
      [] op = "And" -> Value_and(l, r)
      [] op = "Or" -> Value_or(l, r)

\* eval whose binary operation evaluates the right operand first.
RECURSIVE eval_right_first(_, _)
eval_right_first(expr, context) ==
    CASE expr.x = "Identifier" -> Identifier_read(expr, context)
      [] expr.x = "Literal" -> Ok(Literal_value(expr.lit))
      [] expr.x = "Unary" -> AndThen(eval_right_first(expr.expression, context), Value_not)
      [] expr.x = "Binary" ->
            AndThen(eval_right_first(expr.right_expression, context),
                    LAMBDA r : AndThen(eval_right_first(expr.left_expression, context),
                                       LAMBDA l : BinaryOp_apply(expr.op, l, r)))

RECURSIVE eval(_, _)
eval(expr, context) ==
    CASE expr.x = "Identifier" -> Identifier_read(expr, context)
      [] expr.x = "Literal" -> Ok(Literal_value(expr.lit))
      [] expr.x = "Unary" -> AndThen(eval(expr.expression, context), Value_not)
      [] expr.x = "Binary" ->
            AndThen(eval(expr.left_expression, context),
                    LAMBDA l : AndThen(eval(expr.right_expression, context),
                                       LAMBDA r : BinaryOp_apply(expr.op, l, r)))

(***************************************************************************)
(* ResultSet (result_set.rs): columns is the HashMap from a column name to *)
(* its index, rows the vector of row vectors.                              *)
(***************************************************************************)
EmptyMap == [n \in {} |-> 0]
Insert(map, key, val) == [n \in DOMAIN map \cup {key} |-> IF n = key THEN val ELSE map[n]]
MapLen(map) == Cardinality(DOMAIN map)

\* The orders in which a HashMap with these keys may be iterated.
IterationOrders(keys) ==
    {s \in [1..Cardinality(keys) -> keys] : \A i, j \in DOMAIN s : i # j => s[i] # s[j]}

\* slice::sort_by_key, a stable sort: x goes after the elements whose key is
\* not greater.
RECURSIVE InsertByKey(_, _, _)
InsertByKey(sorted, x, map) ==
    IF sorted = <<>> THEN <<x>>
    ELSE IF map[sorted[Len(sorted)]] <= map[x] THEN Append(sorted, x)
    ELSE Append(InsertByKey(SubSeq(sorted, 1, Len(sorted) - 1), x, map), sorted[Len(sorted)])

\* columns() that keeps the order of the iteration.
sort_by_key_unsorted(seq, map) == seq

RECURSIVE sort_by_key(_, _)
sort_by_key(seq, map) ==
    IF seq = <<>> THEN <<>>
    ELSE InsertByKey(sort_by_key(SubSeq(seq, 1, Len(seq) - 1), map), seq[Len(seq)], map)

ResultSet_new == [columns |-> EmptyMap, rows |-> <<>>]

\* add_column that puts the Null in front of the existing rows' cells.
add_column_pushes_front(rs, column_name) ==
    IF column_name \notin DOMAIN rs.columns
    THEN [columns |-> Insert(rs.columns, column_name, MapLen(rs.columns)),
          rows |-> [i \in DOMAIN rs.rows |-> <<Null>> \o rs.rows[i]]]
    ELSE rs

\* add_column that does not look for the name first.
add_column_unchecked(rs, column_name) ==
    [columns |-> Insert(rs.columns, column_name, MapLen(rs.columns)),
     rows |-> [i \in DOMAIN rs.rows |-> Append(rs.rows[i], Null)]]

\* add_column that does not push Null onto the existing rows.
add_column_no_backfill(rs, column_name) ==
    IF column_name \notin DOMAIN rs.columns
    THEN [columns |-> Insert(rs.columns, column_name, MapLen(rs.columns)),
          rows |-> rs.rows]
    ELSE rs

add_column(rs, column_name) ==
    IF column_name \notin DOMAIN rs.columns
    THEN [columns |-> Insert(rs.columns, column_name, MapLen(rs.columns)),
          rows |-> [i \in DOMAIN rs.rows |-> Append(rs.rows[i], Null)]]
    ELSE rs

RECURSIVE add_columns(_, _)
add_columns(rs, columns) ==
    IF columns = <<>> THEN rs
    ELSE add_columns(add_column(rs, Head(columns)), Tail(columns))

with_columns(columns) == add_columns(ResultSet_new, columns)

\* add_row's loop that leaves the cell of an existing column at Null.
RECURSIVE add_row_loop_skips_known(_, _, _)
add_row_loop_skips_known(rs, row, values) ==
    IF values = <<>> THEN [rs |-> rs, row |-> row, panicked |-> FALSE]
    ELSE LET column_name == Head(values).name
             value == Head(values).value
         IN  IF column_name \in DOMAIN rs.columns
             THEN add_row_loop_skips_known(rs, row, Tail(values))
             ELSE add_row_loop_skips_known(add_column(rs, column_name),
                                           Append(row, value), Tail(values))

\* add_row's loop that pushes Null, not the value, for a new column.
RECURSIVE add_row_loop_pushes_null(_, _, _)
add_row_loop_pushes_null(rs, row, values) ==
    IF values = <<>> THEN [rs |-> rs, row |-> row, panicked |-> FALSE]
    ELSE LET column_name == Head(values).name
             value == Head(values).value
         IN  IF column_name \in DOMAIN rs.columns
             THEN LET id == rs.columns[column_name]
                  IN  IF id + 1 \in DOMAIN row
                      THEN add_row_loop_pushes_null(rs, [row EXCEPT ![id + 1] = value],
                                                    Tail(values))
                      ELSE [rs |-> rs, row |-> row, panicked |-> TRUE]
             ELSE add_row_loop_pushes_null(add_column(rs, column_name),
                                           Append(row, Null), Tail(values))

\* The loop of add_row over the pairs.  `row[id] = value` panics when id is
\* not an index of row; the loop then stops with the columns it has added.
RECURSIVE add_row_loop(_, _, _)
add_row_loop(rs, row, values) ==
    IF values = <<>> THEN [rs |-> rs, row |-> row, panicked |-> FALSE]
    ELSE LET column_name == Head(values).name
             value == Head(values).value
         IN  IF column_name \in DOMAIN rs.columns
             THEN LET id == rs.columns[column_name]
                  IN  IF id + 1 \in DOMAIN row
                      THEN add_row_loop(rs, [row EXCEPT ![id + 1] = value], Tail(values))
                      ELSE [rs |-> rs, row |-> row, panicked |-> TRUE]
             ELSE add_row_loop(add_column(rs, column_name), Append(row, value), Tail(values))

add_row_run(rs, values) ==
    add_row_loop(rs, [i \in 1..MapLen(rs.columns) |-> Null], values)

add_row_panics(rs, values) == add_row_run(rs, values).panicked

\* self.rows.push(row), which a panic in the loop does not reach.
push_row(run) ==
    IF run.panicked THEN run.rs
    ELSE [columns |-> run.rs.columns, rows |-> Append(run.rs.rows, run.row)]

add_row(rs, values) == push_row(add_row_run(rs, values))

RECURSIVE add_rows(_, _)
add_rows(rs, rows) ==
    IF rows = <<>> THEN rs
    ELSE add_rows(add_row(rs, Head(rows)), Tail(rows))

\* columns() that does not sort what it collected.
ResultSet_columns_unsorted(rs, iteration) == iteration

\* ResultSet::columns: the names, collected in some iteration order of the
\* HashMap and sorted by index.
ResultSet_columns(rs, iteration) == sort_by_key(iteration, rs.columns)

ResultSet_rows(rs) == rs.rows

\* ResultSet::get_column: the cells at the column's index, row by row; a
\* row without that index, or an unknown name, contributes nothing.
RECURSIVE get_column_from(_, _, _)
get_column_from(rs, column_name, i) ==
    IF i > Len(rs.rows) THEN <<>>
    ELSE (IF column_name \in DOMAIN rs.columns
             /\ rs.columns[column_name] + 1 \in DOMAIN rs.rows[i]
          THEN <<rs.rows[i][rs.columns[column_name] + 1]>>
          ELSE <<>>)
         \o get_column_from(rs, column_name, i + 1)

\* get_column that yields Null for every row when the column is unknown.
get_column_nulls(rs, column_name) ==
    IF column_name \in DOMAIN rs.columns THEN get_column_from(rs, column_name, 1)
    ELSE [i \in 1..Len(rs.rows) |-> Null]

get_column(rs, column_name) == get_column_from(rs, column_name, 1)

get_row(rs, idx) == IF idx + 1 \in DOMAIN rs.rows THEN rs.rows[idx + 1] ELSE <<>>

(***************************************************************************)
(* Query execution (ast/mod.rs, query.rs).  A Field is Asterisk or         *)
(* Name(identifier); a Query is [fields_projection, predicate], with       *)
(* predicate None or an expression.                                        *)
(***************************************************************************)
Asterisk == [f |-> "Asterisk"]
Name(identifier) == [f |-> "Name", name |-> identifier]
None == [x |-> "None"]

\* The fold that inserts a name whether or not the map has it.
RECURSIVE insert_missing_unchecked(_, _)
insert_missing_unchecked(columns, names) ==
    IF names = <<>> THEN columns
    ELSE insert_missing_unchecked(Insert(columns, Head(names), MapLen(columns)),
                                  Tail(names))

\* The fold of FieldsProjection::columns: the HashMap from name to index.
RECURSIVE insert_missing(_, _)
insert_missing(columns, names) ==
    IF names = <<>> THEN columns
    ELSE insert_missing(
            IF Head(names) \notin DOMAIN columns
            THEN Insert(columns, Head(names), MapLen(columns))
            ELSE columns,
            Tail(names))

RECURSIVE columns_fold(_, _)
columns_fold(columns, projection) ==
    IF projection = <<>> THEN columns
    ELSE columns_fold(
            IF Head(projection).f = "Asterisk"
            THEN insert_missing(columns, field_names)
            ELSE insert_missing(columns, <<Head(projection).name>>),
            Tail(projection))

columns_map(projection) == columns_fold(EmptyMap, projection)

\* FieldsProjection::columns: the map collected in some iteration order,
\* sorted by index, names kept.
FieldsProjection_columns(projection, iteration) ==
    sort_by_key(iteration, columns_map(projection))

\* The pairs one record contributes, or the first get_field error.
RECURSIVE project_values(_, _)
field_values(field, item) ==
    IF field.f = "Asterisk" THEN Ok(fields(item))
    ELSE MapOk(get_field(item, field.name),
               LAMBDA value : <<[name |-> field.name, value |-> value]>>)

project_values(projection, item) ==
    IF projection = <<>> THEN Ok(<<>>)
    ELSE AndThen(field_values(Head(projection), item),
                 LAMBDA got : MapOk(project_values(Tail(projection), item),
                                    LAMBDA rest : got \o rest))

Panic == [e |-> "Panic"]

\* project that returns the rows it has when a record fails.
RECURSIVE project_rows_keeps_rows(_, _, _)
project_rows_keeps_rows(projection, rs, records) ==
    IF records = <<>> THEN Ok(rs)
    ELSE IF ~project_values(projection, Head(records)).ok THEN Ok(rs)
    ELSE project_rows_keeps_rows(
            projection, add_row(rs, project_values(projection, Head(records)).v),
            Tail(records))

\* The try_fold of FieldsProjection::project from a seeded ResultSet.
RECURSIVE project_rows(_, _, _)
project_rows(projection, rs, records) ==
    IF records = <<>> THEN Ok(rs)
    ELSE AndThen(project_values(projection, Head(records)),
                 LAMBDA values :
                    IF add_row_panics(rs, values) THEN Err(Panic)
                    ELSE project_rows(projection, add_row(rs, values), Tail(records)))

project(projection, records, iteration) ==
    project_rows(projection,
                 with_columns(FieldsProjection_columns(projection, iteration)),
                 records)

Predicate_test(predicate, value) == AndThen(eval(predicate, value), cast_to_bool)

\* filter that keeps every record whose test succeeds, true or false.
RECURSIVE filter_from_keeps_all(_, _, _)
filter_from_keeps_all(predicate, records, accepted) ==
    IF records = <<>> THEN Ok(accepted)
    ELSE AndThen(Predicate_test(predicate, Head(records)),
                 LAMBDA keep :
                    filter_from_keeps_all(predicate, Tail(records),
                                          Append(accepted, Head(records))))

\* filter that drops a record whose test fails and goes on.
RECURSIVE filter_from_skips_errors(_, _, _)
filter_from_skips_errors(predicate, records, accepted) ==
    IF records = <<>> THEN Ok(accepted)
    ELSE filter_from_skips_errors(
            predicate, Tail(records),
            IF Predicate_test(predicate, Head(records)) = Ok(TRUE)
            THEN Append(accepted, Head(records)) ELSE accepted)

\* filter_map(..).collect::<Result<Vec<_>, _>>(): the records are taken in
\* order and the first Err ends the collection.
RECURSIVE filter_from(_, _, _)
filter_from(predicate, records, accepted) ==
    IF records = <<>> THEN Ok(accepted)
    ELSE AndThen(Predicate_test(predicate, Head(records)),
                 LAMBDA keep :
                    filter_from(predicate, Tail(records),
                                IF keep THEN Append(accepted, Head(records)) ELSE accepted))

Predicate_filter(predicate, records) == filter_from(predicate, records, <<>>)

execute(q, records, iteration) ==
    IF q.predicate # None
    THEN AndThen(Predicate_filter(q.predicate, records),
                 LAMBDA kept : project(q.fields_projection, kept, iteration))
    ELSE project(q.fields_projection, records, iteration)

(***************************************************************************)
(* The parser (ast/parser.rs, built from nom's combinators).  A parser     *)
(* takes the input text and gives Done with its output and the rest of the *)
(* text, a recoverable Error (alt then tries its next parser), or a        *)
(* Failure (an Error under cut), which alt and opt pass on.                *)
(***************************************************************************)
Done(v, rest) == [ok |-> TRUE, v |-> v, rest |-> rest]
Error == [ok |-> FALSE, failure |-> FALSE]
Failure == [ok |-> FALSE, failure |-> TRUE]

Take(text, n) == SubSeq(text, 1, n)
Drop(text, n) == SubSeq(text, n + 1, Len(text))

\* A parser after another: the continuation gets the output and the rest.
Then(result, F(_, _)) == IF result.ok THEN F(result.v, result.rest) ELSE result
\* alt of two parsers; longer alts are nested.
Otherwise(result, other) == IF result.ok \/ result.failure THEN result ELSE other
cut(result) == IF result.ok THEN result ELSE Failure
\* opt(parser) at text: None when the parser gives an Error.
opt(result, text) ==
    IF result.ok \/ result.failure THEN result ELSE Done(None, text)

RECURSIVE multispace0(_)
multispace0(text) ==
    IF text # <<>> /\ Head(text) \in {" ", "\t", "\n", "\r"}
    THEN multispace0(Tail(text)) ELSE text

\* Skips surrounding whitespace.
ws(wrapped(_), text) ==
    Then(wrapped(multispace0(text)), LAMBDA v, rest : Done(v, multispace0(rest)))

tag(t, text) ==
    IF Len(text) >= Len(t) /\ Take(text, Len(t)) = t
    THEN Done(t, Drop(text, Len(t))) ELSE Error

to_lowercase(c) == IF InSeq(UpperChars, c) THEN LowerChars[IndexOf(UpperChars, c)] ELSE c

tag_no_case(t, text) ==
    IF Len(text) >= Len(t) /\ \A i \in 1..Len(t) : to_lowercase(text[i]) = to_lowercase(t[i])
    THEN Done(Take(text, Len(t)), Drop(text, Len(t))) ELSE Error

\* digit0: how many digits the text starts with.
RECURSIVE digit0(_)
digit0(text) == IF text # <<>> /\ IsDigit(Head(text)) THEN 1 + digit0(Tail(text)) ELSE 0

\* nom's i64: an optional sign and one or more digits (values that do not
\* fit in 64 bits, an Error there, are not among the texts).
i64(text) ==
    LET sign == IF text # <<>> /\ Head(text) \in {"+", "-"} THEN 1 ELSE 0
        digits == digit0(Drop(text, sign))
    IN  IF digits = 0 THEN Error
        ELSE Done(ParseI64(Take(text, sign + digits)).v, Drop(text, sign + digits))

\* nom's double on decimal texts: sign, digits with an optional point and
\* fraction (or a point and a fraction), and an optional exponent whose
\* digits are under cut.  (It also reads nan and inf, which a Float here
\* cannot hold; they are not among the texts.)
double(text) ==
    LET sign == IF text # <<>> /\ Head(text) \in {"+", "-"} THEN 1 ELSE 0
        whole == digit0(Drop(text, sign))
        point == Len(text) > sign + whole /\ text[sign + whole + 1] = "."
        frac == IF point THEN digit0(Drop(text, sign + whole + 1)) ELSE 0
        mantissa == IF whole > 0 THEN sign + whole + (IF point THEN 1 + frac ELSE 0)
                    ELSE IF frac > 0 THEN sign + 1 + frac ELSE 0
        marker == Len(text) > mantissa /\ text[mantissa + 1] \in {"e", "E"}
        esign == IF marker /\ Len(text) > mantissa + 1 /\ text[mantissa + 2] \in {"+", "-"}
                 THEN 1 ELSE 0
        edigits == IF marker THEN digit0(Drop(text, mantissa + 1 + esign)) ELSE 0
        exponent == IF edigits = 0 THEN 0
                    ELSE ParseI64(SubSeq(text, mantissa + 2, mantissa + 1 + esign + edigits)).v
        m == ParseF64(Take(text, mantissa)).v
        end == IF marker THEN mantissa + 1 + esign + edigits ELSE mantissa
    IN  IF mantissa = 0 THEN Error
        ELSE IF marker /\ edigits = 0 THEN Failure
        ELSE IF exponent >= 0
        THEN Done(Number_Float(m.m * Pow10(exponent), m.e), Drop(text, end))
        ELSE Done(Number_Float(m.m, m.e - exponent), Drop(text, end))

null(text) == Then(tag_no_case(<<"n", "u", "l", "l">>, text), LAMBDA v, rest : Done(Null, rest))

number(text) ==
    Otherwise(Then(i64(text),
                   LAMBDA i, rest :
                      IF rest # <<>> /\ Head(rest) \in {".", "e", "E"} THEN Error
                      ELSE Done(Number_Int(i), rest)),
              double(text))

boolean(text) ==
    Otherwise(Then(tag(<<"f", "a", "l", "s", "e">>, text), LAMBDA v, rest : Done(FALSE, rest)),
              Then(tag(<<"t", "r", "u", "e">>, text), LAMBDA v, rest : Done(TRUE, rest)))

\* escaped(none_of(\ and the quote), '\\', one_of(the quote and \/bfnrt)):
\* how many characters it takes, or -1 when a backslash is not followed by
\* one of the escapable characters.
RECURSIVE escaped(_, _)
escaped(quote, text) ==
    IF text = <<>> \/ Head(text) = quote THEN 0
    ELSE IF Head(text) # "\\"
    THEN (IF escaped(quote, Tail(text)) < 0 THEN -1 ELSE 1 + escaped(quote, Tail(text)))
    ELSE IF Len(text) >= 2 /\ text[2] \in {quote, "\\", "/", "b", "f", "n", "r", "t"}
    THEN (IF escaped(quote, Drop(text, 2)) < 0 THEN -1 ELSE 2 + escaped(quote, Drop(text, 2)))
    ELSE -1

\* escaped_single_quote_string and escaped_double_quote_string: the escaped
\* text as it is written (escapes stay two characters), or the empty
\* String, with nothing taken, when escaped gives an Error.
escaped_quote_string(quote, text) ==
    IF escaped(quote, text) < 0 THEN Done(<<>>, text)
    ELSE Done(Take(text, escaped(quote, text)), Drop(text, escaped(quote, text)))

quoted(quote, text) ==
    Then(tag(<<quote>>, text),
         LAMBDA open, rest1 :
            Then(escaped_quote_string(quote, rest1),
                 LAMBDA s, rest2 :
                    Then(cut(tag(<<quote>>, rest2)), LAMBDA close, rest3 : Done(s, rest3))))

string(text) == Otherwise(quoted("'", text), quoted("\"", text))

literal(text) ==
    Otherwise(null(text),
      Otherwise(Then(number(text), LAMBDA n, rest : Done(Number(n), rest)),
        Otherwise(Then(boolean(text), LAMBDA b, rest : Done(Bool(b), rest)),
                  Then(string(text), LAMBDA s, rest : Done(String(s), rest)))))

\* many0_count(alt((alphanumeric1, tag("_")))): how many such characters.
RECURSIVE alphanumeric0(_)
alphanumeric0(text) ==
    IF text # <<>> /\ (InSeq(LowerChars, Head(text)) \/ InSeq(UpperChars, Head(text))
                       \/ IsDigit(Head(text)) \/ Head(text) = "_")
    THEN 1 + alphanumeric0(Tail(text)) ELSE 0

\* The identifier's name is the text it is written with.
identifier(text) ==
    IF text # <<>> /\ ~IsDigit(Head(text)) /\ alphanumeric0(text) > 0
    THEN Done(Identifier(Take(text, alphanumeric0(text))), Drop(text, alphanumeric0(text)))
    ELSE Error

relation_operator(text) ==
    Otherwise(Then(tag(<<"L", "I", "K", "E">>, text), LAMBDA v, rest : Done("Like", rest)),
      Otherwise(Then(tag(<<">", "=">>, text), LAMBDA v, rest : Done("Gte", rest)),
        Otherwise(Then(tag(<<">">>, text), LAMBDA v, rest : Done("Gt", rest)),
          Otherwise(Then(tag(<<"<", "=">>, text), LAMBDA v, rest : Done("Lte", rest)),
            Otherwise(Then(tag(<<"<">>, text), LAMBDA v, rest : Done("Lt", rest)),
                      Then(tag(<<"=">>, text), LAMBDA v, rest : Done("Eq", rest)))))))

RECURSIVE expression(_)
RECURSIVE expression1(_)
RECURSIVE expression2(_)
RECURSIVE expression3(_)
RECURSIVE expression4(_)

\* Operators of precedence 4: OR.
expression(text) ==
    Otherwise(
        Then(expression1(text),
             LAMBDA l, rest1 :
                Then(ws(LAMBDA i : tag_no_case(<<"O", "R">>, i), rest1),
                     LAMBDA op, rest2 :
                        Then(expression(rest2),
                             LAMBDA r, rest3 : Done(Binary(l, "Or", r), rest3)))),
        ws(expression1, text))

\* Operators of precedence 3: AND.
expression1(text) ==
    Otherwise(
        Then(expression2(text),
             LAMBDA l, rest1 :
                Then(ws(LAMBDA i : tag_no_case(<<"A", "N", "D">>, i), rest1),
                     LAMBDA op, rest2 :
                        Then(expression1(rest2),
                             LAMBDA r, rest3 : Done(Binary(l, "And", r), rest3)))),
        ws(expression2, text))

\* expression2 whose NOT takes only the primary expression after it.
expression2_not_binds_primary(text) ==
    Otherwise(
        Then(ws(LAMBDA i : tag_no_case(<<"N", "O", "T">>, i), text),
             LAMBDA op, rest1 :
                Then(ws(expression4, rest1), LAMBDA e, rest2 : Done(Unary("Not", e), rest2))),
        ws(expression3, text))

\* Operators of precedence 2: NOT.
expression2(text) ==
    Otherwise(
        Then(ws(LAMBDA i : tag_no_case(<<"N", "O", "T">>, i), text),
             LAMBDA op, rest1 :
                Then(expression2(rest1), LAMBDA e, rest2 : Done(Unary("Not", e), rest2))),
        ws(expression3, text))

\* Operators of precedence 1: the relation operators.
expression3(text) ==
    Otherwise(
        Then(expression4(text),
             LAMBDA l, rest1 :
                Then(ws(relation_operator, rest1),
                     LAMBDA op, rest2 :
                        Then(expression3(rest2),
                             LAMBDA r, rest3 : Done(Binary(l, op, r), rest3)))),
        ws(expression4, text))

\* Expressions in parentheses, literals and identifiers.
expression4(text) ==
    Otherwise(
        Then(tag(<<"(">>, text),
             LAMBDA open, rest1 :
                Then(ws(expression, rest1),
                     LAMBDA e, rest2 :
                        Then(cut(tag(<<")">>, rest2)), LAMBDA close, rest3 : Done(e, rest3)))),
        Otherwise(Then(literal(text), LAMBDA lit, rest : Done(Literal(lit), rest)),
                  identifier(text)))

field(text) ==
    Otherwise(Then(identifier(text), LAMBDA id, rest : Done(Name(id.name), rest)),
              Then(tag(<<"*">>, text), LAMBDA v, rest : Done(Asterisk, rest)))

\* separated_list1 after its first element: a separator and an element, as
\* long as both parse; an Error of either ends the list before the separator.
RECURSIVE separated_list(_, _)
separated_list(list, text) ==
    Otherwise(Then(ws(LAMBDA i : tag(<<",">>, i), text),
                   LAMBDA comma, rest1 :
                      Then(field(rest1),
                           LAMBDA f, rest2 : separated_list(Append(list, f), rest2))),
              Done(list, text))

fields_projection(text) ==
    Then(field(text), LAMBDA f, rest : separated_list(<<f>>, rest))

\* query; its predicate parser gives the expression a Predicate is held as.
Query_parser(text) ==
    ws(LAMBDA i :
          Then(ws(LAMBDA j : tag_no_case(<<"S", "E", "L", "E", "C", "T">>, j), i),
               LAMBDA select, rest1 :
                  Then(fields_projection(rest1),
                       LAMBDA projection, rest2 :
                          Then(opt(Then(ws(LAMBDA j : tag_no_case(<<"W", "H", "E", "R", "E">>, j),
                                           rest2),
                                        LAMBDA where, rest3 : expression(rest3)),
                                   rest2),
                               LAMBDA p, rest4 :
                                  Done([fields_projection |-> projection, predicate |-> p],
                                       rest4)))),
       text)

all_consuming(result) == IF result.ok /\ result.rest # <<>> THEN Error ELSE result

\* Query::from_str that takes what the grammar parses of the text's start.
from_str_prefix(s) == MapErr(MapOk(Query_parser(s), LAMBDA q : q), "ParseError")

\* impl FromStr for Query
from_str(s) == MapErr(MapOk(all_consuming(Query_parser(s)), LAMBDA q : q), "ParseError")

(***************************************************************************)
(* The inputs the model draws from.                                        *)
(***************************************************************************)
S_true == <<"t", "r", "u", "e">>
S_Hello == <<"H", "e", "l", "l", "o">>
S_10 == <<"1", "0">>
S_half == <<"0", ".", "5">>
S_minute == <<"1", "9", "7", "0", "-", "0", "1", "-", "0", "1", " ", "0", "0", ":", "0", "1">>
S_l == <<"l">>

\* A variable that holds no result yet.
NoResult == [none |-> TRUE]

BoundedSeq(S, n) == UNION {[1..k -> S] : k \in 0..n}

ValueSet ==
    { Null, Bool(TRUE), Bool(FALSE),
      Number(Number_Int(0)), Number(Number_Int(1)), Number(Number_Int(60)),
      Number(Number_Float(5, 1)),
      String(S_true), String(S_10), String(S_half), String(S_Hello), String(S_minute),
      DateTime(60), DateTime(1197480300) }

\* The operands of the operations: ValueSet and values that tell the cases
\* of the casts and of `like` apart.
OperandSet ==
    ValueSet \cup { Number(Number_Float(-5, 1)), Number(Number_Int(-1)),
                    String(<<"f", "a", "l", "s", "e">>), String(<<"T", "r", "u", "e">>),
                    String(S_l), String(<<"L">>), String(<<>>) }

ItemSet ==
    { [string |-> S_Hello, number |-> 1, date_time |-> 1197480300],
      [string |-> S_10, number |-> 10, date_time |-> 60],
      [string |-> S_true, number |-> 0, date_time |-> 1607804400] }

FieldSet == {Asterisk, Name("string"), Name("date_time"), Name("field")}

PredicateSet ==
    { Literal(Bool(TRUE)),
      Literal(Null),
      Identifier("number"),
      Identifier("string"),
      Identifier("field"),
      Unary("Not", Identifier("number")),
      Binary(Identifier("string"), "Gt", Literal(Number(Number_Int(0)))),
      Binary(Identifier("number"), "Lt", Literal(Number(Number_Float(15, 1)))),
      Binary(Identifier("number"), "Eq", Literal(String(S_10))),
      Binary(Identifier("string"), "Like", Literal(String(S_l))),
      Binary(Binary(Identifier("number"), "Lte", Literal(Number(Number_Int(1)))),
             "Or", Identifier("string")),
      Binary(Binary(Identifier("date_time"), "Gte", Literal(String(S_minute))),
             "And", Identifier("number")) }

QuerySet ==
    { [fields_projection |-> projection, predicate |-> predicate] :
        projection \in BoundedSeq(FieldSet, MaxFields) \ {<<>>},
        predicate \in PredicateSet \cup {None} }

ColumnNames == {"first", "second"}
CellValues == {Null, Bool(TRUE), Number(Number_Int(1))}
PairSet == {[name |-> n, value |-> v] : n \in ColumnNames, v \in CellValues}
PairLists == BoundedSeq(PairSet, MaxPairs)
ColumnLists == BoundedSeq(ColumnNames, 2)
\* add_rows is given batches of at most two rows of at most one pair.
BatchSet == BoundedSeq(BoundedSeq(PairSet, 1), 2)

\* Query texts are written as pieces: keywords, which a spelling writes in
\* upper case, in lower case or capitalized, and other text, written as it is.
Keyword(w) == [keyword |-> TRUE, w |-> w]
Word(w) == [keyword |-> FALSE, w |-> w]
Spellings == {"upper", "lower", "capitalized"}

Spelled(piece, spelling) ==
    IF ~piece.keyword \/ spelling = "upper" THEN piece.w
    ELSE [i \in DOMAIN piece.w |->
            IF spelling = "capitalized" /\ i = 1 THEN piece.w[i]
            ELSE to_lowercase(piece.w[i])]

RECURSIVE Text(_, _)
Text(pieces, spelling) ==
    IF pieces = <<>> THEN <<>>
    ELSE Spelled(Head(pieces), spelling) \o Text(Tail(pieces), spelling)

KwSelect == Keyword(<<"S", "E", "L", "E", "C", "T">>)
KwWhere == Keyword(<<"W", "H", "E", "R", "E">>)
KwAnd == Keyword(<<"A", "N", "D">>)
KwOr == Keyword(<<"O", "R">>)
KwNot == Keyword(<<"N", "O", "T">>)
KwLike == Keyword(<<"L", "I", "K", "E">>)
KwNull == Keyword(<<"N", "U", "L", "L">>)
Sp == Word(<<" ">>)
W_value == Word(<<"v", "a", "l", "u", "e">>)

\* The field lists: `*`, `a, b`, `*,a` and `a,` (a list ending in a comma).
ProjectionTexts ==
    { <<Word(<<"*">>)>>,
      <<Word(<<"a", ",", " ", "b">>)>>,
      <<Word(<<"*", ",", "a">>)>>,
      <<Word(<<"a", ",">>)>> }

\* The predicates whose grouping is told by the operators' precedence.
PrecedenceTexts ==
    { <<W_value, Sp, KwAnd, Sp, Word(<<"(">>), KwNot, Sp, W_value,
        Word(<<" ", ">", " ", "1", ")", " ">>), KwOr, Sp, W_value>>,
      <<Word(<<"a", " ">>), KwOr, Word(<<" ", "b", " ">>), KwAnd, Word(<<" ", "c">>)>>,
      <<Word(<<"a", " ">>), KwAnd, Word(<<" ", "b", " ">>), KwOr, Word(<<" ", "c">>)>>,
      <<KwNot, Word(<<" ", "a", " ", "=", " ", "b">>)>>,
      <<KwNot, Word(<<" ", "a", " ">>), KwAnd, Word(<<" ", "b">>)>>,
      <<Word(<<"a", " ", "=", " ", "1", " ">>), KwOr, Sp, KwNot, Word(<<" ", "b", ">", "2">>)>> }

\* Further predicates: LIKE, NULL, a float, an escaped quote, and texts the
\* grammar does not take to their end.
PredicateTexts ==
    PrecedenceTexts \cup
    { <<Word(<<"a", " ">>), KwLike, Word(<<" ", "'", "x", "'">>)>>,
      <<Word(<<"a", " ", "=", " ">>), KwNull>>,
      <<Word(<<"a", ">", "=", "3", "0", ".", "1", "\t">>)>>,
      <<Word(<<"a", " ", "=", " ", "\"", "s", "\\", "\"", "t", "\"">>)>>,
      <<Word(<<"(", "a">>)>>,
      <<Word(<<"a", " ", "=", " ", "1", " ", ")">>)>> }

QueryTexts ==
    { <<KwSelect, Sp>> \o projection : projection \in ProjectionTexts }
    \cup { <<KwSelect, Sp>> \o projection \o <<Sp, KwWhere, Sp>> \o where :
             projection \in ProjectionTexts, where \in PredicateTexts }

TextSet == {Text(pieces, spelling) : pieces \in QueryTexts, spelling \in Spellings}

(***************************************************************************)
(* Query::execute on a query and a record sequence: the filter, the        *)
(* columns of the projection, the projection of the surviving records.     *)
(***************************************************************************)
NoOperation == [name |-> "none", ty |-> "none"]
OperationIdle == applied_op = NoOperation /\ applied = NoResult
ValueIdle == left = Null /\ right = Null /\ unified = NoResult /\ OperationIdle
ResultSetIdle == result_set = ResultSet_new /\ last_call = NoResult
FrontEndIdle == input = NoResult /\ parsed = NoResult /\ repl = NoResult
QueryIdle ==
    /\ query = NoResult /\ items = <<>> /\ pc = "idle"
    /\ columns_out = <<>> /\ filtered = NoResult /\ outcome = NoResult

Init ==
    /\ query \in QuerySet
    /\ items \in BoundedSeq(ItemSet, MaxItems)
    /\ pc = "start"
    /\ columns_out = <<>>
    /\ filtered = NoResult
    /\ outcome = NoResult
    /\ ValueIdle
    /\ ResultSetIdle
    /\ FrontEndIdle

Filter ==
    /\ pc = "start"
    /\ query.predicate # None
    /\ filtered' = Predicate_filter(query.predicate, items)
    /\ IF filtered'.ok
       THEN pc' = "filtered" /\ outcome' = outcome
       ELSE pc' = "done" /\ outcome' = filtered'
    /\ UNCHANGED <<query, items, columns_out, left, right, unified, applied_op, applied,
                   result_set, last_call, input, parsed, repl>>

NoPredicate ==
    /\ pc = "start"
    /\ query.predicate = None
    /\ filtered' = Ok(items)
    /\ pc' = "filtered"
    /\ UNCHANGED <<query, items, columns_out, outcome, left, right, unified,
                   applied_op, applied, result_set, last_call, input, parsed, repl>>

Columns ==
    /\ pc = "filtered"
    /\ \E iteration \in IterationOrders(DOMAIN columns_map(query.fields_projection)) :
          columns_out' = FieldsProjection_columns(query.fields_projection, iteration)
    /\ pc' = "seeded"
    /\ UNCHANGED <<query, items, filtered, outcome, left, right, unified,
                   applied_op, applied, result_set, last_call, input, parsed, repl>>

Project ==
    /\ pc = "seeded"
    /\ outcome' = project_rows(query.fields_projection, with_columns(columns_out), filtered.v)
    /\ pc' = "done"
    /\ UNCHANGED <<query, items, columns_out, filtered, left, right, unified,
                   applied_op, applied, result_set, last_call, input, parsed, repl>>

Next == Filter \/ NoPredicate \/ Columns \/ Project

Spec == Init /\ [][Next]_vars

(***************************************************************************)
(* Value::unify_types on a pair of values.                                 *)
(***************************************************************************)
ValueInit ==
    /\ left \in ValueSet
    /\ right \in ValueSet
    /\ unified = NoResult
    /\ OperationIdle
    /\ ResultSetIdle
    /\ QueryIdle
    /\ FrontEndIdle

Unify ==
    /\ unified = NoResult
    /\ unified' = unify_types(left, right)
    /\ UNCHANGED <<left, right, applied_op, applied, result_set, last_call,
                   query, items, pc, columns_out, filtered, outcome, input, parsed, repl>>

ValueNext == Unify

ValueSpec == ValueInit /\ [][ValueNext]_vars

(***************************************************************************)
(* One operation of value/operations.rs, or one cast of                    *)
(* value/conversion.rs, on a pair of values.                               *)
(***************************************************************************)
OperationInit ==
    /\ left \in OperandSet
    /\ right \in OperandSet
    /\ unified = NoResult
    /\ OperationIdle
    /\ ResultSetIdle
    /\ QueryIdle
    /\ FrontEndIdle

Applies(name, ty, result) ==
    /\ applied_op = NoOperation
    /\ applied_op' = [name |-> name, ty |-> ty]
    /\ applied' = result
    /\ UNCHANGED <<left, right, unified, result_set, last_call,
                   query, items, pc, columns_out, filtered, outcome, input, parsed, repl>>

Eq == Applies("eq", "none", Value_eq(left, right))
Lte == Applies("lte", "none", Value_lte(left, right))
Lt == Applies("lt", "none", Value_lt(left, right))
Gte == Applies("gte", "none", Value_gte(left, right))
Gt == Applies("gt", "none", Value_gt(left, right))
And == Applies("and", "none", Value_and(left, right))
Or == Applies("or", "none", Value_or(left, right))
Like == Applies("like", "none", Value_like(left, right))
Not == Applies("not", "none", Value_not(left))
CastTo == \E ty \in Types : Applies("cast_to", ty, cast_to(left, ty))
CastToBool == Applies("cast_to_bool", "Bool", cast_to_bool(left))

\* BinaryOperation::apply with any of its operators on operand expressions
\* that evaluate to left and right, or that fail to evaluate (identifiers of
\* fields the context does not have).  A value is written as a literal; a
\* DateTime, which no literal has, is read from the context's date_time
\* field, so two different DateTime operands are left out.
Apply ==
    LET ExpressionOf(v) ==
            IF type(v) = "DateTime" THEN Identifier("date_time") ELSE Literal(v)
        context ==
            [string |-> <<>>, number |-> 0,
             date_time |-> IF type(left) = "DateTime" THEN left.d
                           ELSE IF type(right) = "DateTime" THEN right.d ELSE 0]
    IN  /\ applied_op = NoOperation
        /\ type(left) # "DateTime" \/ type(right) # "DateTime" \/ left = right
        /\ \E op \in {"Gt", "Lt", "Gte", "Lte", "Eq", "Like", "And", "Or"} :
             \E left_expression \in {ExpressionOf(left), Identifier("field")} :
               \E right_expression \in {ExpressionOf(right), Identifier("other")} :
                  /\ applied_op' = [name |-> "apply", ty |-> op,
                                    left_expression |-> left_expression,
                                    right_expression |-> right_expression,
                                    context |-> context]
                  /\ applied' = eval(Binary(left_expression, op, right_expression),
                                     context)
        /\ UNCHANGED <<left, right, unified, result_set, last_call,
                       query, items, pc, columns_out, filtered, outcome, input, parsed, repl>>

OperationNext ==
    Eq \/ Lte \/ Lt \/ Gte \/ Gt \/ And \/ Or \/ Like \/ Not \/ CastTo \/ CastToBool \/ Apply

OperationSpec == OperationInit /\ [][OperationNext]_vars

(***************************************************************************)
(* A ResultSet under calls of its methods.  last_call records the call,    *)
(* its argument and the ResultSet it was made on.                          *)
(***************************************************************************)
Call(op, arg, panicked) ==
    [op |-> op, arg |-> arg, before |-> result_set, panicked |-> panicked]

ResultSetInit ==
    /\ \E columns \in ColumnLists :
          /\ result_set = with_columns(columns)
          /\ last_call = [op |-> "with_columns", arg |-> columns,
                          before |-> ResultSet_new, panicked |-> FALSE]
    /\ ValueIdle
    /\ QueryIdle
    /\ FrontEndIdle

ResultSetUnchanged ==
    UNCHANGED <<left, right, unified, applied_op, applied,
                query, items, pc, columns_out, filtered, outcome, input, parsed, repl>>

AddColumn ==
    /\ \E column_name \in ColumnNames :
          /\ result_set' = add_column(result_set, column_name)
          /\ last_call' = Call("add_column", column_name, FALSE)
    /\ ResultSetUnchanged

AddColumns ==
    /\ \E columns \in ColumnLists :
          /\ result_set' = add_columns(result_set, columns)
          /\ last_call' = Call("add_columns", columns, FALSE)
    /\ ResultSetUnchanged

AddRow ==
    /\ Len(result_set.rows) < MaxRows
    /\ \E values \in PairLists :
          /\ result_set' = add_row(result_set, values)
          /\ last_call' = Call("add_row", values, add_row_panics(result_set, values))
    /\ ResultSetUnchanged

AddRows ==
    /\ \E rows \in BatchSet :
          /\ Len(result_set.rows) + Len(rows) <= MaxRows
          /\ result_set' = add_rows(result_set, rows)
          /\ last_call' = Call("add_rows", rows,
                               \E i \in 1..Len(rows) :
                                  add_row_panics(add_rows(result_set, SubSeq(rows, 1, i - 1)),
                                                 rows[i]))
    /\ ResultSetUnchanged

\* The reads leave the ResultSet as it is; last_call keeps what they return.
GetColumn ==
    /\ \E column_name \in ColumnNames \cup {"third"} :
          last_call' = [op |-> "get_column", arg |-> column_name, before |-> result_set,
                        panicked |-> FALSE,
                        returned |-> get_column(result_set, column_name)]
    /\ UNCHANGED result_set
    /\ ResultSetUnchanged

GetRow ==
    /\ \E idx \in 0..(MaxRows + 1) :
          last_call' = [op |-> "get_row", arg |-> idx, before |-> result_set,
                        panicked |-> FALSE, returned |-> get_row(result_set, idx)]
    /\ UNCHANGED result_set
    /\ ResultSetUnchanged

ResultSetNext == AddColumn \/ AddColumns \/ AddRow \/ AddRows \/ GetColumn \/ GetRow

ResultSetSpec == ResultSetInit /\ [][ResultSetNext]_vars

(***************************************************************************)
(* Properties of Predicate::filter and Query::execute.                     *)
(***************************************************************************)
HasPredicate == query.predicate # None
Tested(i) == Predicate_test(query.predicate, items[i])
PassesTest(record) == Predicate_test(query.predicate, record) = Ok(TRUE)
NoTestFails == \A i \in 1..Len(items) : Tested(i).ok
FirstFailure == CHOOSE i \in 1..Len(items) : ~Tested(i).ok /\ \A j \in 1..(i - 1) : Tested(j).ok
Survivors == IF HasPredicate THEN SelectSeq(items, PassesTest) ELSE items

\* C1: when no record's evaluation fails, Predicate::filter returns exactly
\* the records whose predicate value casts to true, in their input order.
C1_FilterKeepsPassingRecordsInOrder ==
    (pc # "start" /\ HasPredicate /\ NoTestFails)
        => filtered = Ok(SelectSeq(items, PassesTest))

C1_Witness ==
    /\ pc = "filtered" /\ HasPredicate
    /\ Len(items) = 2 /\ items[1] # items[2]
    /\ filtered = Ok(items)

\* C2: when the evaluation or the cast fails for some record, filter and
\* execute return the error of the first such record, and no record list.
C2_FilterFailsFast ==
    (pc # "start" /\ HasPredicate /\ ~NoTestFails)
        => /\ filtered = Err(Tested(FirstFailure).err)
           /\ DOMAIN filtered = {"ok", "err"}
           /\ pc = "done"
           /\ outcome = filtered

C2_Witness ==
    /\ pc = "done" /\ HasPredicate
    /\ Len(items) = 2
    /\ Tested(1) = Ok(TRUE)
    /\ ~Tested(2).ok
    /\ outcome = Err(Tested(2).err)

\* The value the pairs of one row hold for a column: that of the last pair
\* of that name, Null when there is none.
ProducedFor(pairs, column) ==
    LET hits == {k \in 1..Len(pairs) : pairs[k].name = column}
    IN  IF hits = {} THEN Null
        ELSE pairs[CHOOSE k \in hits : \A h \in hits : h <= k].value

\* C3: after a successful execute the ResultSet has one row per surviving
\* record, in input order, and each cell holds the value the projection
\* produced for its column from that record (the last one when the
\* projection names the column twice), Null when it produced none.
C3_RowsHoldProjectedValues ==
    (pc = "done" /\ outcome.ok)
        => /\ Len(outcome.v.rows) = Len(Survivors)
           /\ \A i \in 1..Len(Survivors) :
                 /\ Len(outcome.v.rows[i]) = MapLen(outcome.v.columns)
                 /\ \A column \in DOMAIN outcome.v.columns :
                       outcome.v.rows[i][outcome.v.columns[column] + 1]
                         = ProducedFor(project_values(query.fields_projection,
                                                      Survivors[i]).v, column)

C3_Witness ==
    /\ pc = "done" /\ outcome.ok
    /\ HasPredicate
    /\ Len(items) = 2 /\ items[1] # items[2]
    /\ Len(outcome.v.rows) = 2
    /\ query.fields_projection = <<Name("string"), Asterisk>>
    /\ outcome.v.rows[1] # outcome.v.rows[2]

\* The names a projection lists, `*` standing for the field names.
RECURSIVE Expansion(_)
Expansion(projection) ==
    IF projection = <<>> THEN <<>>
    ELSE (IF Head(projection).f = "Asterisk" THEN field_names
          ELSE <<Head(projection).name>>) \o Expansion(Tail(projection))

IsFirstOccurrence(seq, i) == \A j \in 1..(i - 1) : seq[j] # seq[i]

RECURSIVE FirstOccurrences(_, _)
FirstOccurrences(seq, i) ==
    IF i > Len(seq) THEN <<>>
    ELSE (IF IsFirstOccurrence(seq, i) THEN <<seq[i]>> ELSE <<>>)
         \o FirstOccurrences(seq, i + 1)

\* C4: FieldsProjection::columns yields the projection's names in order of
\* first occurrence, `*` giving the field names not yet present, no name
\* twice, and the ResultSet seeded with them lists them in that order.
C4_ColumnsInFirstOccurrenceOrder ==
    (pc = "seeded" \/ (pc = "done" /\ filtered.ok))
        => /\ columns_out = FirstOccurrences(Expansion(query.fields_projection), 1)
           /\ \A i, j \in 1..Len(columns_out) : i # j => columns_out[i] # columns_out[j]
           /\ \A iteration \in IterationOrders(DOMAIN with_columns(columns_out).columns) :
                 ResultSet_columns(with_columns(columns_out), iteration) = columns_out
           /\ (query.fields_projection = <<Name("date_time"), Asterisk>>
                 => columns_out = <<"date_time", "string", "number">>)

C4_Witness ==
    /\ pc = "seeded"
    /\ query.fields_projection = <<Name("date_time"), Asterisk>>
    /\ columns_out = <<"date_time", "string", "number">>

NamesUnknownField ==
    \E k \in 1..Len(query.fields_projection) :
        /\ query.fields_projection[k].f = "Name"
        /\ \A i \in 1..Len(field_names) : field_names[i] # query.fields_projection[k].name

\* C5: execute with a projection naming a field the record type lacks fails
\* with NoField, whatever the records, when the predicate evaluates without
\* error.
C5_UnknownFieldFails ==
    (pc = "done" /\ NamesUnknownField /\ (HasPredicate => NoTestFails))
        => ~outcome.ok /\ outcome.err.e = "Reflect" /\ outcome.err.kind = "NoField"

(***************************************************************************)
(* Properties of ResultSet.                                                *)
(***************************************************************************)
\* C6: after any sequence of with_columns, add_column, add_columns, add_row
\* and add_rows calls every row has exactly as many entries as the
\* ResultSet has columns (and no call has panicked on a row index).
C6_RowsAsLongAsColumns ==
    /\ \A i \in 1..Len(result_set.rows) :
          Len(result_set.rows[i]) = MapLen(result_set.columns)
    /\ ~last_call.panicked

C6_Witness ==
    /\ last_call.op = "add_row"
    /\ Len(last_call.before.rows) = 1
    /\ MapLen(last_call.before.columns) = 1
    /\ MapLen(result_set.columns) = 2
    /\ Len(result_set.rows) = 2
    /\ Len(last_call.arg) = 2

IsNewColumn(k) == last_call.arg[k].name \notin DOMAIN last_call.before.columns

\* The columns an add_row call has created before it reaches pair k.
NewBefore(k) ==
    {last_call.arg[j].name : j \in {h \in 1..(k - 1) : IsNewColumn(h)}}

\* The column of pair k was created at the next free index, every earlier
\* row holds Null there, and the new row holds `value` there.
CreatedWith(k, value) ==
    LET column == last_call.arg[k].name
        earlier == Len(last_call.before.rows)
    IN  /\ column \in DOMAIN result_set.columns
        /\ column \notin NewBefore(k)
              => result_set.columns[column]
                   = MapLen(last_call.before.columns) + Cardinality(NewBefore(k))
        /\ Len(result_set.rows) = earlier + 1
        /\ \A i \in 1..(earlier + 1) :
              /\ result_set.columns[column] + 1 \in DOMAIN result_set.rows[i]
              /\ result_set.rows[i][result_set.columns[column] + 1]
                   = IF i <= earlier THEN Null ELSE value

\* C7 as stated: add_row given a pair whose column is not yet in the
\* ResultSet creates the column at the next free index, puts Null there in
\* every earlier row and stores that pair's value there in the new row.
C7_NewColumnHoldsPairValue ==
    last_call.op = "add_row"
        => \A k \in 1..Len(last_call.arg) :
              IsNewColumn(k) => CreatedWith(k, last_call.arg[k].value)

\* C7, amended: ... and stores there, in the new row, the value of the last
\* pair of the call that names that column.
C7_NewColumnHoldsLastPairValue ==
    last_call.op = "add_row"
        => \A k \in 1..Len(last_call.arg) :
              IsNewColumn(k)
                 => CreatedWith(k, ProducedFor(last_call.arg, last_call.arg[k].name))

C7_Witness ==
    /\ last_call.op = "add_row"
    /\ Len(last_call.before.rows) = 1
    /\ Len(last_call.arg) = 2
    /\ IsNewColumn(1)
    /\ last_call.arg[1].name = last_call.arg[2].name
    /\ last_call.arg[1].value # last_call.arg[2].value
    /\ result_set.rows[1][result_set.columns[last_call.arg[1].name] + 1] = Null
    /\ result_set.rows[2][result_set.columns[last_call.arg[1].name] + 1]
         = last_call.arg[2].value

(***************************************************************************)
(* Properties of Value::unify_types.                                       *)
(***************************************************************************)
Unified == unified # NoResult

\* The types from the strongest to the weakest.
StrengthOrder == <<"DateTime", "Number", "Bool", "String", "Null">>
Rank(ty) == CHOOSE i \in 1..Len(StrengthOrder) : StrengthOrder[i] = ty
Stronger(a, b) == IF Rank(a) <= Rank(b) THEN a ELSE b

\* C8: when unify_types succeeds both results have the stronger of the two
\* input types in the order DateTime > Number > Bool > String > Null, and
\* an operand that already had that type is returned unchanged; a String
\* against a Number is parsed as a Number, or fails with Failed.
C8_UnifiesToStrongerType ==
    /\ (Unified /\ unified.ok)
          => /\ type(unified.v[1]) = Stronger(type(left), type(right))
             /\ type(unified.v[2]) = Stronger(type(left), type(right))
             /\ type(left) = Stronger(type(left), type(right)) => unified.v[1] = left
             /\ type(right) = Stronger(type(left), type(right)) => unified.v[2] = right
    /\ (Unified /\ type(left) = "String" /\ type(right) = "Number")
          => IF NumberFromStr(left.s).ok
             THEN unified = Ok(<<Number(NumberFromStr(left.s).v), right>>)
             ELSE ~unified.ok /\ unified.err.e = "Conversion" /\ unified.err.kind = "Failed"

C8_Witness ==
    /\ Unified /\ unified.ok
    /\ left = String(S_10)
    /\ type(right) = "Number"
    /\ unified.v = <<Number(Number_Int(10)), right>>

\* C9 as stated: the operand whose type has the lower precedence number is
\* cast into the other operand's type; with equal numbers both operands are
\* returned unchanged.
C9_CastsLowerPrecedenceNumber ==
    Unified
      => unified =
            IF precedence(type(left)) = precedence(type(right)) THEN Ok(<<left, right>>)
            ELSE IF precedence(type(left)) < precedence(type(right))
            THEN MapOk(cast_to(left, type(right)), LAMBDA cast : <<cast, right>>)
            ELSE MapOk(cast_to(right, type(left)), LAMBDA cast : <<left, cast>>)

\* C9, amended: the operand whose type has the higher precedence number is
\* cast into the other operand's type, the other operand is returned
\* unchanged, a failed cast is the error of unify_types; with equal numbers
\* both operands are returned unchanged.
C9_CastsHigherPrecedenceNumber ==
    Unified
      => /\ precedence(type(left)) = precedence(type(right))
               => unified = Ok(<<left, right>>)
         /\ precedence(type(left)) > precedence(type(right))
               => IF cast_to(left, type(right)).ok
                  THEN unified = Ok(<<cast_to(left, type(right)).v, right>>)
                  ELSE unified = cast_to(left, type(right))
         /\ precedence(type(left)) < precedence(type(right))
               => IF cast_to(right, type(left)).ok
                  THEN unified = Ok(<<left, cast_to(right, type(left)).v>>)
                  ELSE unified = cast_to(right, type(left))

C9_Witness ==
    /\ Unified /\ unified.ok
    /\ left = Bool(TRUE)
    /\ right = Number(Number_Int(60))
    /\ unified.v = <<Number(Number_Int(1)), right>>

\* C10 as stated: unify_types(left, Null) fails with NotAllowed for a left
\* operand of any of the five types.
C10_NullRightNeverUnifies ==
    (Unified /\ right = Null)
        => ~unified.ok /\ unified.err.e = "Conversion" /\ unified.err.kind = "NotAllowed"

\* C10, amended: unify_types(left, Null) fails with NotAllowed for a left
\* operand of any type but Null; unify_types(Null, Null) succeeds and
\* returns both operands unchanged.
C10_NullRightUnifiesWithNullOnly ==
    (Unified /\ right = Null)
        => IF left = Null THEN unified = Ok(<<Null, Null>>)
           ELSE /\ ~unified.ok
                /\ unified.err = NotAllowed("Null", type(left))

C10_Witness ==
    /\ Unified
    /\ left = DateTime(60)
    /\ right = Null
    /\ unified = Err(NotAllowed("Null", "DateTime"))

(***************************************************************************)
(* Properties of the operations and the casts.                             *)
(***************************************************************************)
EitherNull == left = Null \/ right = Null
IsUnsupported(result) ==
    /\ ~result.ok
    /\ result.err.e = "BinaryOperation"
    /\ result.err.kind = "Unsupported"
IsConversionError(result, kind) ==
    /\ ~result.ok
    /\ result.err.e = "Conversion"
    /\ result.err.kind = kind

\* C11: Value::eq with a Null operand never fails: it returns Bool(true)
\* when both operands are Null and Bool(false) otherwise.
C11_EqWithNullNeverFails ==
    (applied_op.name = "eq" /\ EitherNull)
        => applied = Ok(Bool(left = Null /\ right = Null))

C11_Witness ==
    /\ applied_op.name = "eq"
    /\ left = Number(Number_Int(60))
    /\ right = Null
    /\ applied = Ok(Bool(FALSE))

\* C12: gt, lt, gte and lte with a Null operand fail with Unsupported,
\* whatever the other operand, and never with a ConversionError.
C12_OrderingRejectsNull ==
    (applied_op.name \in {"gt", "lt", "gte", "lte"} /\ EitherNull)
        => /\ IsUnsupported(applied)
           /\ applied.err.left = type(left)
           /\ applied.err.right = type(right)

C12_Witness ==
    /\ applied_op.name = "gt"
    /\ left = Number(Number_Int(60))
    /\ right = Null
    /\ IsUnsupported(applied)

\* C13: and / or fail with Unsupported exactly when neither operand is a
\* Bool.
C13_LogicUnsupportedIffNoBool ==
    applied_op.name \in {"and", "or"}
        => (IsUnsupported(applied) <=> (type(left) # "Bool" /\ type(right) # "Bool"))

C13_Witness ==
    /\ applied_op.name = "and"
    /\ type(left) = "String"
    /\ type(right) = "DateTime"
    /\ IsUnsupported(applied)

\* The operand and / or bind as the Bool, and the other one.
BoolOperand == IF type(left) = "Bool" THEN left ELSE right
OtherOperand == IF type(left) = "Bool" THEN right ELSE left

\* C14: and / or with a Bool operand always cast the other operand: when
\* that cast fails the operation returns the conversion error, whatever
\* the Bool operand is; otherwise it combines the two.
C14_LogicCastsWithoutShortCircuit ==
    (applied_op.name \in {"and", "or"} /\ (type(left) = "Bool" \/ type(right) = "Bool"))
        => IF cast_to_bool(OtherOperand).ok
           THEN applied = Ok(Bool(IF applied_op.name = "and"
                                  THEN BoolOperand.b /\ cast_to_bool(OtherOperand).v
                                  ELSE BoolOperand.b \/ cast_to_bool(OtherOperand).v))
           ELSE applied = cast_to_bool(OtherOperand)

\* The string has the pattern as a contiguous run of characters.
HasSubstring(s, p) ==
    \E start \in 0..(Len(s) - Len(p)) : \A k \in 1..Len(p) : s[start + k] = p[k]

\* C15: like fails with Unsupported exactly when the right operand is not a
\* String; otherwise the left operand is cast to its string form, a failed
\* cast is the result, and the result is Bool(the string contains the
\* pattern, case-sensitively).
C15_LikeNeedsStringPattern ==
    applied_op.name = "like"
        => /\ IsUnsupported(applied) <=> type(right) # "String"
           /\ type(right) = "String"
                 => IF cast_to_string(left).ok
                    THEN applied = Ok(Bool(HasSubstring(cast_to_string(left).v, right.s)))
                    ELSE applied = cast_to_string(left)

C15_Witness ==
    /\ applied_op.name = "like"
    /\ left = String(S_Hello)
    /\ right = String(<<"L">>)
    /\ applied = Ok(Bool(FALSE))

\* The source/target pairs a cast is not allowed for.
CastNotAllowed(from, to) ==
    \/ to = "Null"
    \/ from = "Null"
    \/ from = "Bool" /\ to = "DateTime"
    \/ from = "DateTime" /\ to = "Bool"

\* C16: a cast fails with NotAllowed exactly for a cast to Null, a cast of
\* Null, Bool to DateTime and DateTime to Bool; any other cast succeeds or
\* fails with Failed.
C16_NotAllowedPairs ==
    applied_op.name = "cast_to"
        => IF CastNotAllowed(type(left), applied_op.ty)
           THEN applied = Err(NotAllowed(type(left), applied_op.ty))
           ELSE applied.ok \/ IsConversionError(applied, "Failed")

C16_Witness ==
    /\ applied_op.name = "cast_to"
    /\ left = Bool(TRUE)
    /\ applied_op.ty = "DateTime"
    /\ applied = Err(NotAllowed("Bool", "DateTime"))

\* A Number whose value, truncated to an integer, is 0.
TruncatesToZero(n) == IF n.k = "Int" THEN n.i = 0 ELSE Abs(n.m) < Pow10(n.e)

\* C17: cast_to_bool returns a Bool unchanged, false for a Number exactly
\* when its integer value is 0, true / false for the strings `true` /
\* `false` and Failed for any other string, NotAllowed for DateTime and Null.
C17_CastToBool ==
    applied_op.name = "cast_to_bool"
        => CASE type(left) = "Bool" -> applied = Ok(left.b)
             [] type(left) = "Number" -> applied = Ok(~TruncatesToZero(left.n))
             [] type(left) = "String" ->
                   IF left.s = S_true THEN applied = Ok(TRUE)
                   ELSE IF left.s = <<"f", "a", "l", "s", "e">> THEN applied = Ok(FALSE)
                   ELSE applied = Err(Failed(left, "Bool"))
             [] OTHER -> applied = Err(NotAllowed(type(left), "Bool"))

C17_Witness ==
    /\ applied_op.name = "cast_to_bool"
    /\ left = Number(Number_Float(5, 1))
    /\ applied = Ok(FALSE)

(***************************************************************************)
(* Properties of Query::execute as a whole.                                *)
(***************************************************************************)
Projected(i) == project_values(query.fields_projection, Survivors[i])
ProjectionFails == \E i \in 1..Len(Survivors) : ~Projected(i).ok
FirstProjectionFailure ==
    CHOOSE i \in 1..Len(Survivors) :
        ~Projected(i).ok /\ \A j \in 1..(i - 1) : Projected(j).ok

\* C18: execute returns Ok with a ResultSet holding a row for every
\* surviving record, or an Err that carries no ResultSet; an error while a
\* surviving record is projected is the result, never a table of the rows
\* before it.
C18_ExecuteCommitsOrAborts ==
    pc = "done"
        => IF ~filtered.ok
           THEN ~outcome.ok /\ DOMAIN outcome = {"ok", "err"}
           ELSE IF ProjectionFails
           THEN /\ outcome = Err(Projected(FirstProjectionFailure).err)
                /\ DOMAIN outcome = {"ok", "err"}
           ELSE /\ outcome.ok
                /\ Len(outcome.v.rows) = Len(Survivors)

C18_Witness ==
    /\ pc = "done"
    /\ filtered.ok
    /\ Len(Survivors) = 2
    /\ query.fields_projection = <<Name("string"), Name("field")>>
    /\ outcome = Err(NoField("field"))

\* C19: the outcome of execute does not depend on the order in which the
\* hash maps of FieldsProjection::columns and ResultSet::columns are
\* iterated: every order gives this same error, or this same ResultSet with
\* the same column order.
C19_OutcomeIndependentOfIteration ==
    pc = "done"
        => /\ \A iteration \in IterationOrders(DOMAIN columns_map(query.fields_projection)) :
                 execute(query, items, iteration) = outcome
           /\ outcome.ok
                 => \A first, second \in IterationOrders(DOMAIN outcome.v.columns) :
                       ResultSet_columns(outcome.v, first)
                         = ResultSet_columns(outcome.v, second)

C19_Witness ==
    /\ pc = "done"
    /\ outcome.ok
    /\ Len(outcome.v.rows) = 2
    /\ columns_out = <<"date_time", "string", "number">>
    /\ Cardinality(IterationOrders(DOMAIN outcome.v.columns)) = 6

\* C20: add_column with a name already present changes nothing; with a new
\* name it gives the column the index equal to the previous column count,
\* keeps the other columns and appends one Null to every existing row.
C20_AddColumnIdempotent ==
    last_call.op = "add_column"
        => /\ IF last_call.arg \in DOMAIN last_call.before.columns
              THEN result_set = last_call.before
              ELSE /\ DOMAIN result_set.columns
                        = DOMAIN last_call.before.columns \cup {last_call.arg}
                   /\ result_set.columns[last_call.arg] = MapLen(last_call.before.columns)
                   /\ \A name \in DOMAIN last_call.before.columns :
                         result_set.columns[name] = last_call.before.columns[name]
                   /\ Len(result_set.rows) = Len(last_call.before.rows)
                   /\ \A i \in 1..Len(result_set.rows) :
                         result_set.rows[i] = Append(last_call.before.rows[i], Null)
           /\ add_column(result_set, last_call.arg) = result_set

C20_Witness ==
    /\ last_call.op = "add_column"
    /\ last_call.arg \in DOMAIN last_call.before.columns
    /\ MapLen(last_call.before.columns) = 2
    /\ Len(last_call.before.rows) = 2
    /\ result_set = last_call.before

(***************************************************************************)
(* Query::from_str on a query text.                                        *)
(***************************************************************************)
ParseInit ==
    /\ input \in TextSet
    /\ parsed = NoResult
    /\ repl = NoResult
    /\ ValueIdle
    /\ ResultSetIdle
    /\ QueryIdle

FromStr ==
    /\ parsed = NoResult
    /\ parsed' = from_str(input)
    /\ UNCHANGED <<left, right, unified, applied_op, applied, result_set, last_call,
                   query, items, pc, columns_out, filtered, outcome, input, repl>>

ParseSpec == ParseInit /\ [][FromStr]_vars

(***************************************************************************)
(* Cli::run in REPL mode (cli.rs).  repl holds the position in run, the     *)
(* number of readline calls, what the last step met, the trimmed line, the *)
(* parsed command and, once run has returned, its result.  What inquire,   *)
(* clap and sled answer is any of their possible results.                  *)
(***************************************************************************)
\* str::trim
RECURSIVE trim(_)
trim(line) ==
    IF line = <<>> THEN line
    ELSE IF Head(line) \in {" ", "\t", "\n", "\r"} THEN trim(Tail(line))
    ELSE IF line[Len(line)] \in {" ", "\t", "\n", "\r"} THEN trim(Take(line, Len(line) - 1))
    ELSE line

LineSet == {<<>>, <<" ", "\t">>, <<" ", "a", "d", "d", " ">>}

\* repl::readline: a line, or an InquireError.
ReadlineResults ==
    {Ok(line) : line \in LineSet}
    \cup {Err("OperationCanceled"), Err("OperationInterrupted"), Err("NotTTY")}

\* repl::parse: a Command, or clap's error (a query that does not parse
\* among them).
ParseResults == {Ok(command) : command \in {"Add", "Done", "Update", "Delete", "Select"}}
                \cup {Err("clap::Error")}

\* Command::run: Ok(()), or the CommandError its `?` can return.
RunResults(command) ==
    {Ok("()"), Err("Storage")}
    \cup (IF command = "Update" THEN {Err("Readline")} ELSE {})
    \cup (IF command = "Select" THEN {Err("QueryEvaluation")} ELSE {})

\* The match on repl::readline() and the test of the trimmed line.
Cli_run_readline(state, read) ==
    IF read.ok
    THEN IF trim(read.v) = <<>>
         THEN [state EXCEPT !.pc = "readline", !.met = "empty_line", !.line = trim(read.v)]
         ELSE [state EXCEPT !.pc = "parse", !.met = "line", !.line = trim(read.v)]
    ELSE IF read.err \in {"OperationCanceled", "OperationInterrupted"}
    THEN [state EXCEPT !.pc = "returned", !.met = read.err, !.returned = Ok("()")]
    ELSE [state EXCEPT !.pc = "readline", !.met = "readline_error"]

\* The match on repl::parse(line).
Cli_run_parse(state, command) ==
    IF command.ok THEN [state EXCEPT !.pc = "run", !.met = "command", !.command = command.v]
    ELSE [state EXCEPT !.pc = "readline", !.met = "parse_error"]

\* The match on command.run(&storage) written with `?`.
Cli_run_command_propagates(state, ran) ==
    IF ran.ok THEN [state EXCEPT !.pc = "readline", !.met = "command_ok"]
    ELSE [state EXCEPT !.pc = "returned", !.met = "command_failed", !.returned = ran]

\* The match on command.run(&storage).
Cli_run_command(state, ran) ==
    IF ran.ok THEN [state EXCEPT !.pc = "readline", !.met = "command_ok"]
    ELSE [state EXCEPT !.pc = "readline", !.met = "command_failed"]

ReplInit ==
    /\ repl = [pc |-> "open", reads |-> 0, met |-> "nothing", line |-> <<>>,
               command |-> "none", returned |-> NoResult]
    /\ input = NoResult
    /\ parsed = NoResult
    /\ ValueIdle
    /\ ResultSetIdle
    /\ QueryIdle

ReplUnchanged ==
    UNCHANGED <<left, right, unified, applied_op, applied, result_set, last_call,
                query, items, pc, columns_out, filtered, outcome, input, parsed>>

\* Storage::open(TODO_FILE_STORAGE)?
Open ==
    /\ repl.pc = "open"
    /\ \E opened \in {Ok("Storage"), Err("Storage")} :
          repl' = IF opened.ok THEN [repl EXCEPT !.pc = "readline", !.met = "opened"]
                  ELSE [repl EXCEPT !.pc = "returned", !.met = "open_failed",
                                    !.returned = opened]
    /\ ReplUnchanged

Readline ==
    /\ repl.pc = "readline"
    /\ repl.reads < MaxReads
    /\ \E read \in ReadlineResults :
          repl' = Cli_run_readline([repl EXCEPT !.reads = @ + 1], read)
    /\ ReplUnchanged

Parse ==
    /\ repl.pc = "parse"
    /\ \E command \in ParseResults : repl' = Cli_run_parse(repl, command)
    /\ ReplUnchanged

Run ==
    /\ repl.pc = "run"
    /\ \E ran \in RunResults(repl.command) : repl' = Cli_run_command(repl, ran)
    /\ ReplUnchanged

ReplSpec == ReplInit /\ [][Open \/ Readline \/ Parse \/ Run]_vars

(***************************************************************************)
(* Further properties of ResultSet.                                        *)
(***************************************************************************)
IsAdding == last_call.op \in {"with_columns", "add_column", "add_columns", "add_row", "add_rows"}

PairNames(pairs) == [k \in 1..Len(pairs) |-> pairs[k].name]

RECURSIVE BatchNames(_)
BatchNames(rows) ==
    IF rows = <<>> THEN <<>> ELSE PairNames(Head(rows)) \o BatchNames(Tail(rows))

\* The column names a call mentions, in the order it meets them.
CallNames ==
    CASE last_call.op \in {"with_columns", "add_columns"} -> last_call.arg
      [] last_call.op = "add_column" -> <<last_call.arg>>
      [] last_call.op = "add_row" -> PairNames(last_call.arg)
      [] last_call.op = "add_rows" -> BatchNames(last_call.arg)

\* The rows a call adds, in the order it adds them.
CallRows ==
    CASE last_call.op = "add_row" -> <<last_call.arg>>
      [] last_call.op = "add_rows" -> last_call.arg
      [] OTHER -> <<>>

\* C21: columns() yields each column once, in the order of first addition:
\* the columns already there in their order, then the names the call
\* mentions for the first time; rows() yields the rows already there, then
\* the rows the call adds, in the order given.
C21_ColumnsAndRowsInInsertionOrder ==
    IsAdding
        => /\ \A iteration \in IterationOrders(DOMAIN result_set.columns) :
                 \A earlier \in IterationOrders(DOMAIN last_call.before.columns) :
                    ResultSet_columns(result_set, iteration)
                      = FirstOccurrences(
                           ResultSet_columns(last_call.before, earlier) \o CallNames, 1)
           /\ Len(ResultSet_rows(result_set))
                 = Len(last_call.before.rows) + Len(CallRows)
           /\ \A i \in 1..Len(last_call.before.rows) :
                 SubSeq(ResultSet_rows(result_set)[i], 1, Len(last_call.before.rows[i]))
                   = last_call.before.rows[i]
           /\ \A j \in 1..Len(CallRows) :
                 \A column \in DOMAIN result_set.columns :
                    ResultSet_rows(result_set)[Len(last_call.before.rows) + j]
                                              [result_set.columns[column] + 1]
                      = ProducedFor(CallRows[j], column)

C21_Witness ==
    /\ last_call.op = "add_row"
    /\ \A iteration \in IterationOrders(DOMAIN last_call.before.columns) :
          ResultSet_columns(last_call.before, iteration) = <<"second">>
    /\ \A iteration \in IterationOrders(DOMAIN result_set.columns) :
          ResultSet_columns(result_set, iteration) = <<"second", "first">>
    /\ Len(ResultSet_rows(result_set)) = 2
    /\ ResultSet_rows(result_set)[1] # ResultSet_rows(result_set)[2]

\* C22: get_column yields nothing for a name that is no column and
\* otherwise the column's cell of every row, in row order; get_row yields
\* nothing for an index that is not less than the number of rows.
C22_GetColumnAndGetRow ==
    /\ last_call.op = "get_column"
          => IF last_call.arg \notin DOMAIN result_set.columns
             THEN last_call.returned = <<>>
             ELSE /\ Len(last_call.returned) = Len(result_set.rows)
                  /\ \A i \in 1..Len(result_set.rows) :
                        last_call.returned[i]
                          = result_set.rows[i][result_set.columns[last_call.arg] + 1]
    /\ last_call.op = "get_row"
          => IF last_call.arg >= Len(result_set.rows)
             THEN last_call.returned = <<>>
             ELSE last_call.returned = result_set.rows[last_call.arg + 1]

C22_Witness ==
    /\ last_call.op = "get_column"
    /\ last_call.arg = "third"
    /\ Len(result_set.rows) = 2
    /\ MapLen(result_set.columns) = 2
    /\ last_call.returned = <<>>

\* C27: add_row and add_column change no stored cell and no column's index:
\* every earlier row keeps its content, with only Null appended, and every
\* earlier column keeps its index.
C27_AddingKeepsCellsAndIndices ==
    last_call.op \in {"add_row", "add_column"}
        => /\ \A name \in DOMAIN last_call.before.columns :
                 /\ name \in DOMAIN result_set.columns
                 /\ result_set.columns[name] = last_call.before.columns[name]
           /\ Len(result_set.rows) >= Len(last_call.before.rows)
           /\ \A i \in 1..Len(last_call.before.rows) :
                 /\ Len(result_set.rows[i]) >= Len(last_call.before.rows[i])
                 /\ \A k \in 1..Len(result_set.rows[i]) :
                       result_set.rows[i][k]
                         = IF k <= Len(last_call.before.rows[i])
                           THEN last_call.before.rows[i][k] ELSE Null

C27_Witness ==
    /\ last_call.op = "add_row"
    /\ Len(last_call.before.rows) = 1
    /\ MapLen(last_call.before.columns) = 1
    /\ last_call.before.rows[1] = <<Bool(TRUE)>>
    /\ result_set.rows[1] = <<Bool(TRUE), Null>>
    /\ Len(result_set.rows) = 2

NamedTwice(column) ==
    Cardinality({k \in 1..Len(last_call.arg) : last_call.arg[k].name = column}) > 1

\* C28: when the pairs of one add_row call name a column more than once,
\* the new row holds the last such pair's value in that column, whether the
\* column was there before or the call created it, and the new row is as
\* long as the column count.
C28_LastPairOfAColumnWins ==
    (last_call.op = "add_row" /\ \E column \in ColumnNames : NamedTwice(column))
        => /\ Len(result_set.rows) = Len(last_call.before.rows) + 1
           /\ Len(result_set.rows[Len(result_set.rows)]) = MapLen(result_set.columns)
           /\ \A column \in ColumnNames :
                 NamedTwice(column)
                    => /\ column \in DOMAIN result_set.columns
                       /\ result_set.rows[Len(result_set.rows)][result_set.columns[column] + 1]
                            = ProducedFor(last_call.arg, column)

C28_Witness ==
    /\ last_call.op = "add_row"
    /\ NamedTwice("first")
    /\ "first" \in DOMAIN last_call.before.columns
    /\ last_call.arg[1].value = Bool(TRUE)
    /\ last_call.arg[2].value = Null
    /\ result_set.rows[Len(result_set.rows)][result_set.columns["first"] + 1] = Null

(***************************************************************************)
(* Symmetry of eq, and, or.                                                *)
(***************************************************************************)
Swapped ==
    CASE applied_op.name = "eq" -> Value_eq(right, left)
      [] applied_op.name = "and" -> Value_and(right, left)
      [] applied_op.name = "or" -> Value_or(right, left)

\* C29: eq, and, or give for (b, a) what they give for (a, b): the same
\* Bool, or an error of the same kind.
C29_EqAndOrSymmetric ==
    applied_op.name \in {"eq", "and", "or"}
        => IF applied.ok THEN Swapped = applied
           ELSE /\ ~Swapped.ok
                /\ Swapped.err.e = applied.err.e
                /\ Swapped.err.kind = applied.err.kind

C29_Witness ==
    /\ applied_op.name = "and"
    /\ type(left) = "String"
    /\ right = Bool(FALSE)
    /\ ~cast_to_bool(left).ok
    /\ applied = Ok(Bool(FALSE))
    /\ Value_and(right, left) = applied

(***************************************************************************)
(* The order in which BinaryOperation::apply evaluates.                    *)
(***************************************************************************)
LeftEvaluated == eval(applied_op.left_expression, applied_op.context)
RightEvaluated == eval(applied_op.right_expression, applied_op.context)

\* C26: BinaryOperation::apply evaluates the left and then the right
\* operand before it applies the operator, And and Or included: a failure
\* of the left operand is the result, otherwise a failure of the right
\* operand is the result whatever the left value is, and only otherwise is
\* the operator applied to the two values.
C26_OperandsEvaluatedBeforeOperator ==
    applied_op.name = "apply"
        => IF ~LeftEvaluated.ok THEN applied = LeftEvaluated
           ELSE IF ~RightEvaluated.ok THEN applied = RightEvaluated
           ELSE applied = BinaryOp_apply(applied_op.ty, LeftEvaluated.v, RightEvaluated.v)

C26_Witness ==
    /\ applied_op.name = "apply"
    /\ applied_op.ty = "And"
    /\ LeftEvaluated = Ok(Bool(FALSE))
    /\ applied_op.right_expression = Identifier("other")
    /\ applied = Err(NoField("other"))

(***************************************************************************)
(* Properties of the parser.                                               *)
(***************************************************************************)
\* C23: a query text parses to what its spelling with upper-case keywords
\* parses to, whatever the letter case of SELECT, WHERE, AND, OR, NOT, LIKE
\* and NULL in it.
C23_KeywordsInAnyCase ==
    parsed # NoResult
        => \A pieces \in QueryTexts : \A spelling \in Spellings :
              input = Text(pieces, spelling) => parsed = from_str(Text(pieces, "upper"))

\* C24: from_str gives a Query only when the grammar takes the whole text;
\* a text of which the grammar leaves a rest gives a ParseError.
C24_WholeInputConsumed ==
    parsed # NoResult
        => /\ parsed.ok => Query_parser(input).ok /\ Query_parser(input).rest = <<>>
           /\ (Query_parser(input).ok /\ Query_parser(input).rest # <<>>)
                 => parsed = Err("ParseError")
           /\ parsed.ok \/ parsed = Err("ParseError")

C24_Witness ==
    /\ input = <<"S", "E", "L", "E", "C", "T", " ", "a", ",">>
    /\ Query_parser(input).ok
    /\ Query_parser(input).rest = <<",">>
    /\ parsed = Err("ParseError")

Id(name) == Identifier(<<name>>)
IntLiteral(i) == Literal(Number(Number_Int(i)))

\* The grouping the precedence OR < AND < NOT < comparison gives to the
\* predicates of PrecedenceTexts.
Grouping(pieces) ==
    CASE pieces[1] = W_value ->
            Binary(Binary(Identifier(W_value.w), "And",
                          Unary("Not", Binary(Identifier(W_value.w), "Gt", IntLiteral(1)))),
                   "Or", Identifier(W_value.w))
      [] pieces[1] = Word(<<"a", " ">>) /\ pieces[2] = KwOr ->
            Binary(Id("a"), "Or", Binary(Id("b"), "And", Id("c")))
      [] pieces[1] = Word(<<"a", " ">>) /\ pieces[2] = KwAnd ->
            Binary(Binary(Id("a"), "And", Id("b")), "Or", Id("c"))
      [] pieces[1] = KwNot /\ Len(pieces) = 2 ->
            Unary("Not", Binary(Id("a"), "Eq", Id("b")))
      [] pieces[1] = KwNot /\ Len(pieces) = 4 ->
            Binary(Unary("Not", Id("a")), "And", Id("b"))
      [] OTHER ->
            Binary(Binary(Id("a"), "Eq", IntLiteral(1)), "Or",
                   Unary("Not", Binary(Id("b"), "Gt", IntLiteral(2))))

\* C25: OR groups loosest, then AND, then NOT, then the comparisons, and
\* NOT applies to the whole comparison after it:
\* `value AND (NOT value > 1) OR value` is Or(And(value, Not(Gt(value, 1))), value).
C25_OperatorPrecedence ==
    parsed # NoResult
        => \A pieces \in PrecedenceTexts : \A spelling \in Spellings :
              input = Text(<<KwSelect, Sp, Word(<<"*">>), Sp, KwWhere, Sp>> \o pieces, spelling)
                 => parsed = Ok([fields_projection |-> <<Asterisk>>,
                                 predicate |-> Grouping(pieces)])

C25_Witness ==
    /\ input = <<"S", "E", "L", "E", "C", "T", " ", "*", " ", "W", "H", "E", "R", "E", " ",
                 "v", "a", "l", "u", "e", " ", "A", "N", "D", " ", "(", "N", "O", "T", " ",
                 "v", "a", "l", "u", "e", " ", ">", " ", "1", ")", " ", "O", "R", " ",
                 "v", "a", "l", "u", "e">>
    /\ parsed # NoResult
    /\ parsed.ok
    /\ parsed.v.predicate.op = "Or"
    /\ parsed.v.predicate.left_expression.op = "And"
    /\ parsed.v.predicate.left_expression.right_expression.op = "Not"
    /\ parsed.v.predicate.left_expression.right_expression.expression.op = "Gt"

(***************************************************************************)
(* The REPL loop.                                                          *)
(***************************************************************************)
\* C30: in the loop no failure ends Cli::run: after a readline error other
\* than cancel and interrupt, an empty line, a parse error or a failed
\* command the next step is the next readline; once the loop is entered,
\* run returns only on OperationCanceled or OperationInterrupted, with Ok.
C30_ReplEndsOnlyOnCancel ==
    /\ repl # NoResult /\ repl.met \in {"readline_error", "empty_line", "parse_error",
                                        "command_failed", "command_ok"}
          => repl.pc = "readline" /\ repl.returned = NoResult
    /\ repl # NoResult /\ repl.pc = "returned" /\ repl.met # "open_failed"
          => /\ repl.met \in {"OperationCanceled", "OperationInterrupted"}
             /\ repl.returned = Ok("()")

C30_Witness ==
    /\ repl # NoResult
    /\ repl.met = "command_failed"
    /\ repl.command = "Select"
    /\ repl.reads = 2
    /\ repl.pc = "readline"

====
